---- MODULE Spec2Model ----
(***************************************************************************)
(* A model of the photondb tree engine (engine/src/tree): the page header, *)
(* the data page layout and its binary search, the iterators and the       *)
(* k-way merge, and the latch-free update path of BTree (descent, delta    *)
(* install by CAS, consolidation) run by concurrent requests.              *)
(***************************************************************************)
EXTENDS Integers, Sequences, FiniteSets, TLC

\* ------------------------------------------------------------------ bounds

\* LSNs a request may carry: 1..MaxLsn (0 is used by reads below every write).
MaxLsn == 2

\* Writes (put/delete requests) that get their delta page over a run.
MaxWrites == 3

\* Options::data_delta_length, the configured consolidation threshold.
DataDeltaLength == 2

\* Error::Again results the retry loops consume over a run.
MaxRetries == 2

\* Advances of the global epoch over a run.
MaxEpoch == 3

\* Children of a MergingIter, rewinds of an iterator over a run, and the
\* entries an iterator may yield in one pass.
MaxChildren == 3
MaxRewinds == 2
MaxSeen == 10

\* The longest input a data page is built from on its own.
MaxEntries == 3

\* The pages of an index chain looked up on its own.
MaxPages == 2

\* Operations on a BaseData or a BaseIndex over a run.
MaxApplies == 2

\* The threads driving requests.
Threads == {"t1", "t2"}

\* The thread that runs get requests page by page, and everyone who pins.
Reader == "r"
Participants == Threads \cup {Reader}

\* User keys (byte strings) of requests.
UserKeys == {<<1>>, <<2>>}

\* ------------------------------------------------------- program constants

PAGE_KIND_MASK == 127
ROOT_ID == 0

\* PageKind as the u8 it is stored as.
KindData == 0
KindSplit == 1

\* PAGE_HEADER_SIZE: the bytes of the page header.
PAGE_HEADER_SIZE == 20

\* PAGE_VERSION_SIZE: the bytes of the version at the head of the header.
PAGE_VERSION_SIZE == 6

\* The values of the chain-length field, a u8.
LEN_VALUES == 256

\* Option<T>: None is the empty sequence, Some(x) the one-element sequence.
None == <<>>
Some(x) == <<x>>
IsSome(o) == o # <<>>
Unwrap(o) == o[1]

\* ------------------------------------------------------------- orderings

CmpNat(a, b) == IF a < b THEN "Less" ELSE IF a > b THEN "Greater" ELSE "Equal"

\* <[u8] as Ord>::cmp: lexicographic, a proper prefix is less.
RECURSIVE CmpBytes(_, _)
CmpBytes(a, b) ==
    IF a = <<>> THEN (IF b = <<>> THEN "Equal" ELSE "Less")
    ELSE IF b = <<>> THEN "Greater"
    ELSE IF Head(a) < Head(b) THEN "Less"
    ELSE IF Head(a) > Head(b) THEN "Greater"
    ELSE CmpBytes(Tail(a), Tail(b))

\* Key::new(raw, lsn); an index page's key is the bare byte string.
Key(raw, lsn) == [raw |-> raw, lsn |-> lsn]
RawKey(raw) == [raw |-> raw]

\* Key::cmp: user bytes ascending, then LSN descending; &[u8] keys compare
\* by their bytes alone.
ThenLsn(c, a, b) ==
    IF c # "Equal" THEN c
    ELSE IF "lsn" \in DOMAIN a THEN CmpNat(b.lsn, a.lsn)
    ELSE "Equal"

KeyCmp(a, b) == ThenLsn(CmpBytes(a.raw, b.raw), a, b)

\* Value::Put(bytes) / Value::Delete, and Index { id, ver }.
Put(bytes) == [tag |-> "Put", bytes |-> bytes]
Delete == [tag |-> "Delete"]
Index(id, ver) == [tag |-> "Index", id |-> id, ver |-> ver]
IndexWithId(id) == Index(id, 0)
ROOT_INDEX == IndexWithId(ROOT_ID)

\* Option<&[u8]>::from(Value): a Put is Some(bytes), a Delete is None.
ValueInto(v) == IF v.tag = "Put" THEN Some(v.bytes) ELSE None

\* Encodable::encode_size of a key and of a value.
KeyEncodeSize(k) == 4 + Len(k.raw) + (IF "lsn" \in DOMAIN k THEN 8 ELSE 0)
ValueEncodeSize(v) ==
    IF v.tag = "Put" THEN 1 + 4 + Len(v.bytes)
    ELSE IF v.tag = "Delete" THEN 1
    ELSE 16

\* ------------------------------------------------------------ page header

\* PagePtr::set_default: the 20 header bytes zeroed.
DefaultHeader == [ver |-> 0, len |-> 0, tag |-> 0, next |-> 0, content_size |-> 0]

\* PageTag::kind / index / is_index / with_kind / with_index on the tag byte.
TagKind(tag) == tag % (PAGE_KIND_MASK + 1)
TagIndex(tag) == tag - (tag % (PAGE_KIND_MASK + 1))
TagIsIndex(tag) == TagIndex(tag) # 0
\* A with_kind that keeps the kind alone.
TagOfKind(tag, kind) == kind
TagWithKind(tag, kind) == TagIndex(tag) + kind
TagWithIndex(tag, is_index) ==
    IF is_index THEN TagKind(tag) + (PAGE_KIND_MASK + 1) ELSE TagKind(tag)

\* The header setters; each rewrites its own bytes of the page.
\* set_ver copies the low six bytes of the version; every integer of the model
\* is below 2^31, so those bytes are the version itself.
SetVer(page, ver) == [page EXCEPT !.ver = ver]
SetLen(page, len) == [page EXCEPT !.len = len % 256]
\* A set_next that stamps a delta only the first time.
SetNextOnce(page, next) == IF page.next = 0 THEN [page EXCEPT !.next = next] ELSE page
SetNext(page, next) == [page EXCEPT !.next = next]
SetKind(page, kind) == [page EXCEPT !.tag = TagWithKind(page.tag, kind)]
SetIndex(page, is_index) == [page EXCEPT !.tag = TagWithIndex(page.tag, is_index)]
SetContentSize(page, size) == [page EXCEPT !.content_size = size]

PageKindOf(page) == TagKind(page.tag)
PageIsIndex(page) == TagIsIndex(page.tag)

\* PageBuilder::build on a freshly allocated page: the default header, the
\* kind and the content size; the content itself is not yet written.
PageBuild(kind, content_size) ==
    LET h0 == DefaultHeader @@ [offsets |-> <<>>, payload |-> <<>>]
    IN SetContentSize(SetKind(h0, kind), content_size)

\* --------------------------------------------------------------- data page

\* DataPageRef::new / len: the number of offsets is recovered from the first
\* offset, which is the byte size of the offset array.
DataPageLen(page) ==
    IF page.content_size = 0 THEN 0 ELSE page.offsets[1] \div 4

\* DataPageRef::get: the entry decoded at the index-th offset, if any.
DataPageGet(page, index) ==
    IF index < DataPageLen(page)
    THEN Some(page.payload[page.offsets[index + 1]])
    ELSE None

\* DataPageRef::rank: binary search; an equal key ends the search at mid.
RECURSIVE RankLoop(_, _, _, _)
RankTurn(page, target, left, right, mid, ord) ==
    IF ord = "Less" THEN RankLoop(page, target, mid + 1, right)
    ELSE IF ord = "Greater" THEN RankLoop(page, target, left, mid)
    ELSE mid

RankLoop(page, target, left, right) ==
    IF left < right
    THEN LET mid == (left + right) \div 2
         IN RankTurn(page, target, left, right, mid,
                     KeyCmp(page.payload[page.offsets[mid + 1]][1], target))
    ELSE left

DataPageRank(page, target) == RankLoop(page, target, 0, DataPageLen(page))

\* DataPageRef::seek: the entry at rank(target).
DataPageSeek(page, target) == DataPageGet(page, DataPageRank(page, target))

\* DataPageRef::seek_back: from rank(target) backwards, the first entry whose
\* key is <= target.
RECURSIVE SeekBackLoop(_, _, _)
\* A seek_back that takes the entry at rank(target) whatever its key.
SeekBackTurnAnyKey(page, target, i, e) ==
    IF IsSome(e)
    THEN e
    ELSE SeekBackLoop(page, target, i - 1)

SeekBackTurn(page, target, i, e) ==
    IF IsSome(e) /\ KeyCmp(Unwrap(e)[1], target) # "Greater"
    THEN e
    ELSE SeekBackLoop(page, target, i - 1)

SeekBackLoop(page, target, i) ==
    IF i < 0 THEN None
    ELSE SeekBackTurn(page, target, i, DataPageGet(page, i))

DataPageSeekBack(page, target) ==
    SeekBackLoop(page, target, DataPageRank(page, target))

\* --------------------------------------------------------------- iterators

\* SliceIter::new, OptionIter::new, DataPageIter::new.
SliceIter(data) == [type |-> "slice", data |-> data, pos |-> 0, last |-> None]
OptionIter(next) == [type |-> "option", next |-> next, last |-> None]
DataPageIter(page) == [type |-> "page", page |-> page, next |-> 0, last |-> None]

\* MergingIterBuilder::build / MergingIter::new: the children in the order
\* they were added, and an empty heap.
MergingIter(children) == [type |-> "merging", heap |-> <<>>, children |-> children]

\* next() of the three leaf iterators: the iterator afterwards and the
\* value next() returned.
SliceIterNext(it) ==
    LET got == IF it.pos < Len(it.data) THEN Some(it.data[it.pos + 1]) ELSE None
    IN [it |-> [it EXCEPT !.last = got,
                          !.pos = IF IsSome(got) THEN it.pos + 1 ELSE it.pos],
        ret |-> got]

OptionIterNext(it) ==
    IF IsSome(it.next)
    THEN [it |-> [it EXCEPT !.last = it.next, !.next = None], ret |-> it.next]
    ELSE [it |-> it, ret |-> None]

DataPageIterGot(it, got) ==
    [it |-> [it EXCEPT !.last = got,
                       !.next = IF IsSome(got) THEN it.next + 1 ELSE it.next],
     ret |-> got]

DataPageIterNext(it) == DataPageIterGot(it, DataPageGet(it.page, it.next))

SliceIterRewind(it) == [it EXCEPT !.pos = 0, !.last = None]
OptionIterRewind(it) ==
    IF IsSome(it.last) THEN [it EXCEPT !.next = it.last, !.last = None] ELSE it
DataPageIterRewind(it) == [it EXCEPT !.next = 0, !.last = None]

\* SliceIter::seek: binary_search_by on the keys; found or not, the index is
\* that of the first entry whose key is not below the target.
SliceIterSeek(it, target) ==
    [it EXCEPT !.pos = Cardinality({i \in DOMAIN it.data :
                                        KeyCmp(it.data[i][1], target) = "Less"}),
               !.last = None]

\* DataPageIter::seek: next = rank(target).
DataPageIterSeek(it, target) ==
    [it EXCEPT !.next = DataPageRank(it.page, target), !.last = None]

\* ForwardIter::last of a child of the merge (a leaf iterator).
ChildLast(it) == it.last

ChildNext(it) ==
    IF it.type = "slice" THEN SliceIterNext(it).it
    ELSE IF it.type = "option" THEN OptionIterNext(it).it
    ELSE DataPageIterNext(it).it

ChildRewind(it) ==
    IF it.type = "slice" THEN SliceIterRewind(it)
    ELSE IF it.type = "option" THEN OptionIterRewind(it)
    ELSE DataPageIterRewind(it)

\* The comparison of the last entries without the reversal.
ForwardIterCmp(a, b) ==
    LET la == ChildLast(a)
        lb == ChildLast(b)
    IN IF IsSome(la) /\ IsSome(lb) THEN KeyCmp(Unwrap(la)[1], Unwrap(lb)[1])
       ELSE IF IsSome(la) THEN "Greater"
       ELSE IF IsSome(lb) THEN "Less"
       ELSE "Equal"

\* ReverseIter::cmp: by the last entries, reversed, so that the greatest
\* ReverseIter holds the least key; an exhausted iterator is the least.
ReverseIterCmp(a, b) ==
    LET la == ChildLast(a)
        lb == ChildLast(b)
    IN IF IsSome(la) /\ IsSome(lb) THEN KeyCmp(Unwrap(lb)[1], Unwrap(la)[1])
       ELSE IF IsSome(la) THEN "Greater"
       ELSE IF IsSome(lb) THEN "Less"
       ELSE "Equal"

RevLe(a, b) == ReverseIterCmp(a, b) # "Greater"
RevGe(a, b) == ReverseIterCmp(a, b) # "Less"
RevLt(a, b) == ReverseIterCmp(a, b) = "Less"

\* ------------------------------------------------- BinaryHeap<ReverseIter>

\* The heap is the vector std's BinaryHeap keeps, positions counted from 0.
At(data, i) == data[i + 1]
SetAt(data, i, x) == [data EXCEPT ![i + 1] = x]
SatSub(a, b) == IF a >= b THEN a - b ELSE 0

\* BinaryHeap::sift_up: the hole climbs while its element is greater than
\* the parent.
RECURSIVE SiftUp(_, _, _, _)
SiftUp(data, start, pos, elt) ==
    IF pos > start
    THEN LET parent == (pos - 1) \div 2
         IN IF RevLe(elt, At(data, parent))
            THEN SetAt(data, pos, elt)
            ELSE SiftUp(SetAt(data, pos, At(data, parent)), start, parent, elt)
    ELSE SetAt(data, pos, elt)

\* BinaryHeap::sift_down_range: the hole sinks towards the greater child
\* (the right one on a tie) until its element is >= that child.
GreaterChild(data, child) ==
    IF RevLe(At(data, child), At(data, child + 1)) THEN child + 1 ELSE child

RECURSIVE SiftDownRange(_, _, _, _)
SiftDownTurn(data, pos, end, elt, c) ==
    IF RevGe(elt, At(data, c))
    THEN SetAt(data, pos, elt)
    ELSE SiftDownRange(SetAt(data, pos, At(data, c)), c, end, elt)

SiftDownRange(data, pos, end, elt) ==
    LET child == 2 * pos + 1
    IN IF child <= SatSub(end, 2)
       THEN SiftDownTurn(data, pos, end, elt, GreaterChild(data, child))
       ELSE IF child = end - 1 /\ RevLt(elt, At(data, child))
            THEN SetAt(SetAt(data, pos, At(data, child)), child, elt)
            ELSE SetAt(data, pos, elt)

\* BinaryHeap::sift_down_to_bottom: the hole sinks to a leaf along the
\* greater children, then the element is sifted up from there.
RECURSIVE SinkToBottom(_, _, _)
SinkTurn(data, pos, end, c) == SinkToBottom(SetAt(data, pos, At(data, c)), c, end)

SinkToBottom(data, pos, end) ==
    LET child == 2 * pos + 1
    IN IF child <= SatSub(end, 2)
       THEN SinkTurn(data, pos, end, GreaterChild(data, child))
       ELSE IF child = end - 1
            THEN [data |-> SetAt(data, pos, At(data, child)), pos |-> child]
            ELSE [data |-> data, pos |-> pos]

SiftUpFrom(sunk, start, elt) == SiftUp(sunk.data, start, sunk.pos, elt)

SiftDownToBottom(data, start) ==
    SiftUpFrom(SinkToBottom(data, start, Len(data)), start, At(data, start))

\* BinaryHeap::from(vec): rebuild sifts down every inner node, last first.
RECURSIVE Rebuild(_, _)
Rebuild(data, n) ==
    IF n > 0
    THEN Rebuild(SiftDownRange(data, n - 1, Len(data), At(data, n - 1)), n - 1)
    ELSE data

HeapFrom(vec) == Rebuild(vec, Len(vec) \div 2)

\* BinaryHeap::pop: the last slot is swapped with the root, which is
\* returned; the heap left behind and the popped item.
HeapPop(data) ==
    IF data = <<>> THEN [heap |-> data, item |-> None]
    ELSE LET last == data[Len(data)]
             rest == SubSeq(data, 1, Len(data) - 1)
         IN IF rest = <<>> THEN [heap |-> rest, item |-> Some(last)]
            ELSE [heap |-> SiftDownToBottom(SetAt(rest, 0, last), 0),
                  item |-> Some(At(rest, 0))]

\* BinaryHeap::push.
HeapPush(data, item) == SiftUp(Append(data, item), 0, Len(data), item)

\* BinaryHeap::peek.
HeapPeek(data) == IF data = <<>> THEN None ELSE Some(data[1])

\* ------------------------------------------------------------ MergingIter

\* MergingIter::last: the last entry of the iterator at the top of the heap.
MergingIterLast(it) ==
    IF it.heap = <<>> THEN None ELSE ChildLast(it.heap[1])

\* `for iter in children.iter_mut() { iter.next() }` and the same with f =
\* rewind, over the vector of children.
RECURSIVE MapNext(_)
MapNext(cs) ==
    IF cs = <<>> THEN <<>> ELSE <<ChildNext(Head(cs))>> \o MapNext(Tail(cs))

RECURSIVE MapRewind(_)
MapRewind(cs) ==
    IF cs = <<>> THEN <<>> ELSE <<ChildRewind(Head(cs))>> \o MapRewind(Tail(cs))

\* The same with f = seek(target); the children of a seekable merge are
\* SliceIters or DataPageIters.
RECURSIVE MapSeek(_, _)
MapSeek(cs, target) ==
    IF cs = <<>> THEN <<>>
    ELSE <<IF Head(cs).type = "slice" THEN SliceIterSeek(Head(cs), target)
           ELSE DataPageIterSeek(Head(cs), target)>> \o MapSeek(Tail(cs), target)

\* MergingIter::init_heap: every child advanced once, then heapified; the
\* pending children are taken.
InitHeap(it) ==
    [it EXCEPT !.heap = HeapFrom(MapNext(it.children)), !.children = <<>>]

\* MergingIter::next: the top iterator is popped, advanced and pushed back;
\* with an empty heap the heap is initialised instead.
MergingIterPopped(it, popped) ==
    IF IsSome(popped.item)
    THEN [it EXCEPT !.heap = HeapPush(popped.heap, ChildNext(Unwrap(popped.item)))]
    ELSE InitHeap(it)

MergingIterYield(after) == [it |-> after, ret |-> MergingIterLast(after)]

MergingIterNext(it) == MergingIterYield(MergingIterPopped(it, HeapPop(it.heap)))

\* take_children without the test on the heap: the pending children are
\* taken and the heap is dropped.
TakeChildrenPending(it) ==
    [taken |-> it.children, it |-> [it EXCEPT !.heap = <<>>, !.children = <<>>]]

\* MergingIter::take_children: the heap's vector when the heap is not empty,
\* the pending children otherwise.
TakeChildren(it) ==
    IF it.heap # <<>>
    THEN [taken |-> it.heap, it |-> [it EXCEPT !.heap = <<>>]]
    ELSE [taken |-> it.children, it |-> [it EXCEPT !.children = <<>>]]

\* MergingIter::reset with f = seek(target) (MergingIter::seek).
MergingIterSeek(it, target) ==
    LET t == TakeChildren(it)
    IN [t.it EXCEPT !.children = MapSeek(t.taken, target)]

\* MergingIter::reset with f = rewind (MergingIter::rewind).
MergingIterRewind(it) ==
    LET t == TakeChildren(it)
    IN [t.it EXCEPT !.children = MapRewind(t.taken)]

\* ForwardIter / RewindableIter of any iterator handed to a builder.
IterNext(it) ==
    IF it.type = "merging" THEN MergingIterNext(it)
    ELSE IF it.type = "slice" THEN SliceIterNext(it)
    ELSE IF it.type = "option" THEN OptionIterNext(it)
    ELSE DataPageIterNext(it)

IterRewind(it) ==
    IF it.type = "merging" THEN MergingIterRewind(it) ELSE ChildRewind(it)

\* --------------------------------------------------------- DataPageBuilder

\* The first pass of build_from_iter: DataPageBuilder::add on every entry
\* the iterator yields.
RECURSIVE SizePass(_, _, _)
\* A size pass that forgets the offset array.
SizeTurnNoOffsets(r, offsets_size, payload_size) ==
    IF IsSome(r.ret)
    THEN LET e == Unwrap(r.ret)
         IN SizePass(r.it, offsets_size,
                     payload_size + KeyEncodeSize(e[1]) + ValueEncodeSize(e[2]))
    ELSE [it |-> r.it, offsets_size |-> offsets_size,
          payload_size |-> payload_size]

SizeTurn(r, offsets_size, payload_size) ==
    IF IsSome(r.ret)
    THEN LET e == Unwrap(r.ret)
         IN SizePass(r.it, offsets_size + 4,
                     payload_size + KeyEncodeSize(e[1]) + ValueEncodeSize(e[2]))
    ELSE [it |-> r.it, offsets_size |-> offsets_size,
          payload_size |-> payload_size]

SizePass(it, offsets_size, payload_size) ==
    SizeTurn(IterNext(it), offsets_size, payload_size)

\* The second pass: DataPageBuf::add writes the offset of each entry and the
\* entry at the writer's position.
RECURSIVE WritePass(_, _, _)
WriteTurn(r, page, pos) ==
    IF IsSome(r.ret)
    THEN LET e == Unwrap(r.ret)
         IN WritePass(r.it,
                      [page EXCEPT !.offsets = Append(page.offsets, pos),
                                   !.payload = (pos :> e) @@ page.payload],
                      pos + KeyEncodeSize(e[1]) + ValueEncodeSize(e[2]))
    ELSE page

WritePass(it, page, pos) == WriteTurn(IterNext(it), page, pos)

\* DataPageBuilder::build: an empty data page.
DataPageBuild == PageBuild(KindData, 0)

\* DataPageBuilder::build_from_iter: rewind, size pass, allocation of the
\* page, rewind, write pass.
BuildSized(sized) ==
    WritePass(IterRewind(sized.it),
              PageBuild(KindData, sized.offsets_size + sized.payload_size),
              sized.offsets_size)

BuildFromIter(iter) == BuildSized(SizePass(IterRewind(iter), 0, 0))

\* ------------------------------------------------------------------- state

\* Page addresses the allocator can hand out; 0 is the null pointer, which
\* is never dereferenced.
MaxAddr == 2 + 2 * MaxWrites
Addrs == 1..MaxAddr
Memory == 0..MaxAddr

\* The slots BTree::init allocates: the root and the first leaf.
LEAF_ID == 1
PageIds == {ROOT_ID, LEAF_ID}

VARIABLES
    table,      \* PageTable: slot (page id) -> page address
    mem,        \* the bytes at every page address (stale where not allocated)
    alloc,      \* the addresses PageCache has allocated and not deallocated
    pc,         \* where each thread is in its request
    req,        \* the request a thread is running: its key and value, and its
                \* place in the history once installed
    delta,      \* the address of the delta page a writer built
    node,       \* the Node { id, view } a writer holds
    installed,  \* history: the writes whose CAS succeeded, in CAS order, and
                \* for each what it returned to its caller (None while it
                \* runs) and how the consolidation it triggered ended
    nwrites,    \* history: put/delete requests that built their delta page
    garbage,    \* chains handed to Guard::defer by dealloc_page_chain, each
                \* with the epoch its closure is queued against
    epoch,      \* the global epoch
    pinned,     \* the epoch each participant's guard pins, None when released
    reader,     \* where the reader is in its get: the key, the head of the
                \* chain it found and the page it is about to read
    drive,      \* an iterator driven on its own: what it was made from, its
                \* state, the entries yielded since the last rewind
    probe,      \* a data page built on its own, and what was asked of it
    size,       \* PageCache::size, the counter of allocated bytes
    retries,    \* history: Error::Again results consumed by the retry loops
    out         \* the kind of Result the last request to return handed back

vars == <<table, mem, alloc, pc, req, delta, node, installed, nwrites, garbage, retries,
          out, epoch, pinned, reader, drive, probe, size>>

\* The iterator and the page driven on their own, which no request touches.
bench == <<drive, probe>>

\* jemalloc's usable_size of an allocation of n bytes: n rounded up to the
\* allocator's quantum.
UsableSize(n) == ((n + 15) \div 16) * 16

\* The bytes PageBuilder::build asks the allocator for.
RequestedSize(page) == PAGE_HEADER_SIZE + page.content_size

\* PageCache::alloc and PageCache::dealloc: what usable_size(ptr) adds to
\* and subtracts from the counter for a page.
AllocSize(page) == UsableSize(PAGE_HEADER_SIZE + page.content_size)
DeallocSize(page) == UsableSize(PAGE_HEADER_SIZE + page.content_size)

\* The closure of dealloc_page_chain, and the reclaimer running several:
\* PageCache::dealloc on every page of the set S.
RECURSIVE DeallocSizes(_)
DeallocSizes(S) ==
    IF S = {} THEN 0
    ELSE LET a == CHOOSE x \in S : TRUE
         IN DeallocSize(mem[a]) + DeallocSizes(S \ {a})

\* An allocator that hands out a page that is still allocated.
LiveAddr == CHOOSE a \in alloc : TRUE

\* PageCache::alloc: the address of the new page; the allocator's choice is
\* the lowest free address, so a freed page is reused at once.
NewAddr == CHOOSE a \in Addrs \ alloc : \A b \in Addrs \ alloc : a <= b

\* PageTable::get and PageTable::cas on a slot.
TableGet(id) == table[id]
TableCas(id, old, new) ==
    IF table[id] = old
    THEN [ok |-> TRUE, table |-> [table EXCEPT ![id] = new], addr |-> old]
    ELSE [ok |-> FALSE, table |-> table, addr |-> table[id]]

\* BTree::page_view of a memory address: None for the null pointer.
PageView(addr) == IF addr = 0 THEN None ELSE Some(addr)

\* PageView::ver / len / is_index of a view in memory.
ViewVer(view) == mem[view].ver
ViewLen(view) == mem[view].len
\* An is_index that answers true for every page.
ViewIsIndexAlways(view) == TRUE
ViewIsIndex(view) == PageIsIndex(mem[view])

\* BTree::node: the slot's address and its view.
NodeOf(id) == [id |-> id, view |-> Unwrap(PageView(TableGet(id)))]

\* TypedPageRef::cast: a page is read as a data page when its kind is Data.
IsDataPage(page) == PageKindOf(page) = KindData

\* walk_node: the addresses of the pages of a chain, head first.
RECURSIVE ChainFrom(_, _)
ChainFrom(m, addr) ==
    IF addr = 0 THEN <<>> ELSE <<addr>> \o ChainFrom(m, m[addr].next)

\* The read path below is written over a mapping table tbl and a memory m,
\* so that it can be evaluated on the tree before and after a step; the
\* requests run it on (table, mem).

\* BTree::lookup_value: walk_node from the node's view; the first data page
\* whose seek(key) lands on an entry of the same user key decides.
RECURSIVE LookupValueWalk(_, _, _)
\* The walk without the test `k.raw == key.raw`: any entry seek lands on
\* decides.
LookupValueTurnAnyKey(m, page, key, e) ==
    IF IsSome(e)
    THEN ValueInto(Unwrap(e)[2])
    ELSE IF page.next = 0 THEN None
    ELSE LookupValueWalk(m, page.next, key)

LookupValueTurn(m, page, key, e) ==
    IF IsSome(e) /\ Unwrap(e)[1].raw = key.raw
    THEN ValueInto(Unwrap(e)[2])
    ELSE IF page.next = 0 THEN None
    ELSE LookupValueWalk(m, page.next, key)

LookupValueWalk(m, addr, key) ==
    LookupValueTurn(m, m[addr], key,
        IF IsDataPage(m[addr]) THEN DataPageSeek(m[addr], key) ELSE None)

LookupValue(m, key, nd) == LookupValueWalk(m, nd.view, key)

\* BTree::lookup_index: walk_node; the first data page whose seek_back(key)
\* finds an entry decides.
RECURSIVE LookupIndexWalk(_, _, _)
LookupIndexTurn(m, page, raw, e) ==
    IF IsSome(e) THEN Some(Unwrap(e)[2])
    ELSE IF page.next = 0 THEN None
    ELSE LookupIndexWalk(m, page.next, raw)

LookupIndexWalk(m, addr, raw) ==
    LookupIndexTurn(m, m[addr], raw,
        IF IsDataPage(m[addr]) THEN DataPageSeekBack(m[addr], RawKey(raw)) ELSE None)

LookupIndex(m, raw, nd) == LookupIndexWalk(m, nd.view, raw)

\* BTree::try_find_node: the descent from ROOT_INDEX. A version mismatch
\* reaches try_reconcile_node and a failed index lookup reaches unwrap():
\* both panic.
RECURSIVE Descend(_, _, _, _)
DescendTo(tbl, m, idx, raw) ==
    IF IsSome(idx) THEN Descend(tbl, m, Unwrap(idx), raw) ELSE [tag |-> "Panic"]

Descend(tbl, m, cursor, raw) ==
    LET nd == [id |-> cursor.id, view |-> Unwrap(PageView(tbl[cursor.id]))]
    IN IF m[nd.view].ver # cursor.ver THEN [tag |-> "Panic"]
       ELSE IF PageIsIndex(m[nd.view])
       THEN DescendTo(tbl, m, LookupIndex(m, raw, nd), raw)
       ELSE [tag |-> "Ok", node |-> nd]

TryFindNode(raw) == Descend(table, mem, ROOT_INDEX, raw)

\* BTree::iter_node: walk_node adds an iterator over every data page of the
\* chain, head first, to a MergingIterBuilder.
RECURSIVE IterNodeWalk(_)
\* A walk whose closure returns true: it stops after the head of the chain.
IterNodeWalkHeadOnly(addr) ==
    IF IsDataPage(mem[addr]) THEN <<DataPageIter(mem[addr])>> ELSE <<>>

IterNodeWalk(addr) ==
    LET page == mem[addr]
        here == IF IsDataPage(page) THEN <<DataPageIter(page)>> ELSE <<>>
    IN IF page.next = 0 THEN here ELSE here \o IterNodeWalk(page.next)

IterNode(nd) == MergingIter(IterNodeWalk(nd.view))

\* BTree::try_get and the retry loop of BTree::get, taken at once: the
\* descent and the lookup read the slots once and then only published pages.
TryGetFound(m, key, found) ==
    IF found.tag = "Ok" THEN [tag |-> "Ok", value |-> LookupValue(m, key, found.node)]
    ELSE found

TryGetIn(tbl, m, key) == TryGetFound(m, key, Descend(tbl, m, ROOT_INDEX, key.raw))

TryGet(key) == TryGetIn(table, mem, key)

\* BTree::init: the empty leaf and the one-entry root index page.
InitLeafPage == DataPageBuild
\* A root page on which set_index(true) was not called.
InitRootPageNotIndex ==
    BuildFromIter(OptionIter(Some(<<RawKey(<<>>), IndexWithId(LEAF_ID)>>)))

InitRootPage ==
    SetIndex(BuildFromIter(OptionIter(Some(<<RawKey(<<>>), IndexWithId(LEAF_ID)>>))), TRUE)

FreePage == PageBuild(KindData, 0)

Fresh ==
    /\ table = [id \in PageIds |-> IF id = LEAF_ID THEN 1 ELSE 2]
    /\ mem = [a \in Memory |-> IF a = 1 THEN InitLeafPage
                              ELSE IF a = 2 THEN InitRootPage ELSE FreePage]
    /\ alloc = {1, 2}
    /\ pc = [t \in Threads |-> "idle"]
    /\ req = [t \in Threads |-> None]
    /\ delta = [t \in Threads |-> 0]
    /\ node = [t \in Threads |-> None]
    /\ installed = <<>>
    /\ nwrites = 0
    /\ garbage = {}
    /\ retries = 0
    /\ out = None
    /\ epoch = 0
    /\ pinned = [p \in Participants |-> None]
    /\ reader = [pc |-> "idle"]
    /\ size = AllocSize(InitLeafPage) + AllocSize(InitRootPage)

\* BTree::open on an empty store; no iterator or page is driven on its own.
Init ==
    /\ Fresh
    /\ drive = [kind |-> "none"]
    /\ probe = [kind |-> "none"]

\* ----------------------------------------------------------------- actions

\* A request returns to its caller: the kind of Result it handed back (Ok,
\* or the Error) is kept until the next request returns.
Returns(result) == Some([tag |-> result.tag])

\* The threads are interchangeable: a new request is taken by the first idle
\* one.
FirstIdle(t) == t = "t1" \/ pc["t1"] # "idle"

\* The value of the n-th write: its own byte, so that every put is
\* recognisable in what a read returns.
WriteValues(n) == {Put(<<n>>), Delete}

\* The guard of a request: pinned to the current global epoch by the caller
\* before the request reads the mapping table, released when it returns.
Pin(p) == [pinned EXCEPT ![p] = Some(epoch)]
Unpin(p) == [pinned EXCEPT ![p] = None]

\* BTree::put / BTree::delete up to the loop of BTree::update: the delta
\* page is built from a one-entry OptionIter. An allocation failure returns
\* through `?` before anything is published.
Update(t) ==
    /\ pc[t] = "idle"
    /\ FirstIdle(t)
    /\ nwrites < MaxWrites
    /\ \E raw \in UserKeys, lsn \in 1..MaxLsn, value \in WriteValues(nwrites + 1),
          ok \in BOOLEAN :
        LET key == Key(raw, lsn)
            page == BuildFromIter(OptionIter(Some(<<key, value>>)))
        IN IF ok
           THEN /\ mem' = [mem EXCEPT ![NewAddr] = page]
                /\ alloc' = alloc \cup {NewAddr}
                /\ delta' = [delta EXCEPT ![t] = NewAddr]
                /\ req' = [req EXCEPT ![t] = Some([key |-> key, value |-> value, at |-> 0])]
                /\ pc' = [pc EXCEPT ![t] = "find"]
                /\ nwrites' = nwrites + 1
                /\ pinned' = Pin(t)
                /\ size' = size + AllocSize(page)
                /\ UNCHANGED out
           ELSE /\ out' = Returns([tag |-> "Alloc"])
                /\ UNCHANGED <<mem, alloc, delta, req, pc, nwrites, pinned, size>>
    /\ UNCHANGED <<table, node, installed, garbage, retries, epoch, reader, bench>>

\* BTree::try_update, its first line: try_find_node for the request's key.
FindNode(t) ==
    /\ pc[t] = "find"
    /\ \E found \in {TryFindNode(Unwrap(req[t]).key.raw)} :
          IF found.tag = "Ok"
          THEN /\ node' = [node EXCEPT ![t] = Some(found.node)]
               /\ pc' = [pc EXCEPT ![t] = "cas"]
          ELSE /\ pc' = [pc EXCEPT ![t] = "panic"]
               /\ UNCHANGED node
    /\ UNCHANGED <<table, mem, alloc, req, delta, installed, nwrites, garbage, retries, out,
                   epoch, pinned, reader, bench, size>>

\* A loop arm that hands every Result to the caller.
ArmReturns(r) == "return"

\* The loop of BTree::get on the Result of try_get: Error::Again is retried,
\* anything else is returned.
GetArm(r) == IF r.tag = "Again" THEN "continue" ELSE "return"

\* The loop of BTree::update on the Result of try_update: Ok is returned,
\* Error::Again is retried, any other error deallocates the delta page and is
\* returned.
\* A loop of BTree::update without the arm for Error::Again: every error
\* deallocates the delta page and is returned.
UpdateArmNoRetry(r) == IF r.tag = "Ok" THEN "return" ELSE "fail"

UpdateArm(r) ==
    IF r.tag = "Ok" THEN "return"
    ELSE IF r.tag = "Again" THEN "continue"
    ELSE "fail"

\* A consolidation whose Result is handed on, as `?` would.
KeepResult(r) == r

\* try_update after its CAS: `let _ = try_consolidate_node(..)` drops the
\* consolidation's Result and `return Ok(())` follows.
DropResult(r) == [tag |-> "Ok"]

\* BTree::try_update, one turn of its loop: the delta is stamped with the
\* observed head's version, length + 1 and address, then published by CAS.
\* On success the writer consolidates when the chain reached the threshold,
\* otherwise returns Ok. On failure it retries on the new head when the
\* version is unchanged, and otherwise leaves with Error::Again, which the
\* loop of BTree::update turns into a new descent.
TryUpdate(t) ==
    /\ pc[t] = "cas"
    /\ LET nd == Unwrap(node[t])
           d == delta[t]
           stamped == SetNext(SetLen(SetVer(mem[d], ViewVer(nd.view)),
                                     ViewLen(nd.view) + 1), nd.view)
           cas == TableCas(nd.id, stamped.next, d)
           view == PageView(cas.addr)
       IN /\ mem' = [mem EXCEPT ![d] = stamped]
          /\ table' = cas.table
          /\ IF cas.ok
             THEN /\ installed' = Append(installed,
                        [key |-> Unwrap(req[t]).key, value |-> Unwrap(req[t]).value,
                         ret |-> IF stamped.len >= DataDeltaLength
                                 THEN None ELSE Some("Ok"),
                         cons |-> "none"])
                  /\ IF stamped.len >= DataDeltaLength
                     THEN /\ node' = [node EXCEPT ![t] = Some([nd EXCEPT !.view = d])]
                          /\ pc' = [pc EXCEPT ![t] = "consolidate"]
                          /\ UNCHANGED out
                          /\ req' = [req EXCEPT ![t] =
                                Some([Unwrap(req[t]) EXCEPT !.at = Len(installed) + 1])]
                          /\ UNCHANGED <<delta, pinned>>
                     ELSE /\ node' = [node EXCEPT ![t] = None]
                          /\ pc' = [pc EXCEPT ![t] = "idle"]
                          /\ out' = Returns([tag |-> "Ok"])
                          /\ req' = [req EXCEPT ![t] = None]
                          /\ delta' = [delta EXCEPT ![t] = 0]
                          /\ pinned' = Unpin(t)
                  /\ UNCHANGED retries
             ELSE /\ IF IsSome(view) /\ ViewVer(Unwrap(view)) = ViewVer(nd.view)
                     THEN /\ node' = [node EXCEPT ![t] = Some([nd EXCEPT !.view = Unwrap(view)])]
                          /\ UNCHANGED <<pc, retries>>
                     ELSE /\ UpdateArm([tag |-> "Again"]) = "continue"
                          /\ node' = [node EXCEPT ![t] = None]
                          /\ pc' = [pc EXCEPT ![t] = "find"]
                          /\ retries' = retries + 1
                  /\ UNCHANGED <<installed, req, delta, out, pinned>>
    /\ UNCHANGED <<alloc, nwrites, garbage, epoch, reader, bench, size>>

\* BTree::try_consolidate_node, called by try_update after a successful CAS,
\* and try_update's return: the chain from the writer's own delta is merged
\* into one page, which takes the version and the index flag of the head and
\* is published by CAS. A failed allocation or a failed CAS (the new page is
\* deallocated again, which leaves the memory as it was) is dropped by
\* `let _ =`; the request returns Ok.
Consolidate(t) ==
    /\ pc[t] = "consolidate"
    /\ \E ok \in BOOLEAN :
        LET nd == Unwrap(node[t])
            built == BuildFromIter(IterNode(nd))
            page == SetIndex(SetVer(built, ViewVer(nd.view)), ViewIsIndex(nd.view))
            cas == TableCas(nd.id, nd.view, NewAddr)
            r == IF ~ok THEN [tag |-> "Alloc"]
                 ELSE IF cas.ok THEN [tag |-> "Ok"]
                 ELSE [tag |-> "Again"]
        IN /\ IF r.tag = "Ok"
              THEN /\ mem' = [mem EXCEPT ![NewAddr] = page]
                   /\ table' = cas.table
                   /\ alloc' = alloc \cup {NewAddr}
                   /\ garbage' = garbage \cup {[addr |-> nd.view, epoch |-> epoch]}
                   /\ size' = size + AllocSize(page)
              ELSE /\ UNCHANGED <<mem, table, alloc, garbage>>
                   /\ size' = IF ok THEN (size + AllocSize(page)) - DeallocSize(page)
                              ELSE size
           /\ out' = Returns(DropResult(r))
           /\ installed' = [installed EXCEPT
                               ![Unwrap(req[t]).at].ret = Some(DropResult(r).tag),
                               ![Unwrap(req[t]).at].cons = r.tag]
    /\ pc' = [pc EXCEPT ![t] = "idle"]
    /\ req' = [req EXCEPT ![t] = None]
    /\ delta' = [delta EXCEPT ![t] = 0]
    /\ node' = [node EXCEPT ![t] = None]
    /\ pinned' = Unpin(t)
    /\ UNCHANGED <<nwrites, retries, epoch, reader, bench>>

\* BTree::get by any caller: the key is (user bytes, read LSN); the loop
\* retries try_get on Error::Again and returns anything else.
GetResult(raw, lsn) == TryGet(Key(raw, lsn))

\* A get that returns: it leaves the tree and the writers as they are and
\* hands GetResult to its caller.
Get ==
    /\ out' \in {Returns(r) : r \in {GetResult(raw, lsn) : raw \in UserKeys, lsn \in 0..MaxLsn}
                                 \ {[tag |-> "Panic"]}}
    /\ UNCHANGED <<table, mem, alloc, pc, req, delta, node, installed, nwrites, garbage,
                   retries, epoch, pinned, reader, bench, size>>

Next ==
    \/ \E t \in Threads :
        \/ Update(t)
        \/ FindNode(t)
        \/ TryUpdate(t)
        \/ Consolidate(t)
    \/ Get

Spec == Init /\ [][Next]_vars

\* ------------------------------------------------------- the retry loops

\* Every Result the Error type lets try_get and try_update hand to the loop
\* at the request entry.
TryResults == {[tag |-> x] : x \in {"Ok", "Alloc", "Again", "Corrupted", "Io"}}

\* The loop of BTree::update, run against any Result of try_update: the
\* request started by Update(t) returns, retries from the descent, or
\* deallocates its delta page and fails.
UpdateLoop(t) ==
    /\ pc[t] = "find"
    /\ \E r \in TryResults :
        IF UpdateArm(r) = "continue"
        THEN /\ retries < MaxRetries
             /\ retries' = retries + 1
             /\ UNCHANGED <<mem, alloc, pc, req, delta, out, pinned, size>>
        ELSE /\ out' = Returns(r)
             /\ pinned' = Unpin(t)
             /\ pc' = [pc EXCEPT ![t] = "idle"]
             /\ req' = [req EXCEPT ![t] = None]
             /\ delta' = [delta EXCEPT ![t] = 0]
             /\ IF UpdateArm(r) = "fail"
                THEN /\ alloc' = alloc \ {delta[t]}
                     /\ mem' = [mem EXCEPT ![delta[t]] = FreePage]
                     /\ size' = size - DeallocSize(mem[delta[t]])
                ELSE UNCHANGED <<mem, alloc, size>>
             /\ UNCHANGED retries
    /\ UNCHANGED <<table, node, installed, nwrites, garbage, epoch, reader, bench>>

\* The loop of BTree::get, run against any Result of try_get.
GetLoop ==
    /\ \E r \in TryResults :
        IF GetArm(r) = "continue"
        THEN /\ retries < MaxRetries
             /\ retries' = retries + 1
             /\ UNCHANGED out
        ELSE /\ out' = Returns(r)
             /\ UNCHANGED retries
    /\ UNCHANGED <<table, mem, alloc, pc, req, delta, node, installed, nwrites, garbage,
                   epoch, pinned, reader, bench, size>>

NextRetry ==
    \/ \E t \in Threads :
        \/ Update(t)
        \/ UpdateLoop(t)
    \/ GetLoop

SpecRetry == Init /\ [][NextRetry]_vars

\* ----------------------------------------------------- epoch reclamation

\* A reclaimer that never waits for a pin.
DrainedAlways(e) == TRUE

\* All pins for epochs older than e have dropped.
Drained(e) ==
    \A p \in Participants : IsSome(pinned[p]) => Unwrap(pinned[p]) >= e

\* The closure dealloc_page_chain defers: it walks the chain from addr by
\* the pages' own next links and deallocates every page on it.
\* A closure that walks the chain the slot points at when it runs.
DeallocPageChainOfSlot(addr) ==
    {ChainFrom(mem, table[LEAF_ID])[n] : n \in DOMAIN ChainFrom(mem, table[LEAF_ID])}

DeallocPageChain(addr) == {ChainFrom(mem, addr)[n] : n \in DOMAIN ChainFrom(mem, addr)}

\* The closures queued against epochs older than e.
Due(e) == {g \in garbage : g.epoch < e}

\* The reclaimer: once all pins for epochs older than the current one have
\* dropped it advances the global epoch and runs the closures queued against
\* those older epochs.
Reclaim ==
    /\ epoch < MaxEpoch
    /\ Drained(epoch)
    /\ epoch' = epoch + 1
    /\ \E freed \in {UNION {DeallocPageChain(g.addr) : g \in Due(epoch)}} :
          /\ alloc' = alloc \ freed
          /\ mem' = [a \in Memory |-> IF a \in freed THEN FreePage ELSE mem[a]]
          /\ size' = size - DeallocSizes(freed)
    /\ garbage' = garbage \ Due(epoch)
    /\ UNCHANGED <<table, pc, req, delta, node, installed, nwrites, retries, out, pinned,
                   reader, bench>>

\* The caller of get pins its guard and enters BTree::get.
GetPin ==
    /\ reader.pc = "idle"
    /\ \E raw \in UserKeys, lsn \in 0..MaxLsn :
          reader' = [pc |-> "find", key |-> Key(raw, lsn)]
    /\ pinned' = Pin(Reader)
    /\ UNCHANGED <<table, mem, alloc, pc, req, delta, node, installed, nwrites, garbage,
                   retries, out, epoch, bench, size>>

\* BTree::try_get, its first line: try_find_node reads the slots and hands
\* back the view of the leaf's chain.
GetFind ==
    /\ reader.pc = "find"
    /\ \E found \in {TryFindNode(reader.key.raw)} :
          /\ found.tag = "Ok"
          /\ reader' = [pc |-> "walk", key |-> reader.key,
                        head |-> found.node.view, cur |-> found.node.view]
    /\ UNCHANGED <<table, mem, alloc, pc, req, delta, node, installed, nwrites, garbage,
                   retries, out, epoch, pinned, bench, size>>

\* One turn of walk_node under lookup_value's closure, on the page at addr:
\* the closure decides, or the chain ends, or the walk loads the next page.
LookupValueStepOn(page, key, e) ==
    IF IsSome(e) /\ Unwrap(e)[1].raw = key.raw
    THEN [tag |-> "done", value |-> ValueInto(Unwrap(e)[2])]
    ELSE IF page.next = 0 THEN [tag |-> "done", value |-> None]
    ELSE [tag |-> "next", addr |-> page.next]

LookupValueStep(m, addr, key) ==
    LookupValueStepOn(m[addr], key,
        IF IsDataPage(m[addr]) THEN DataPageSeek(m[addr], key) ELSE None)

\* BTree::lookup_value by the reader, one page per step; when it is done
\* get returns and the caller releases its guard.
GetWalk ==
    /\ reader.pc = "walk"
    /\ \E r \in {LookupValueStep(mem, reader.cur, reader.key)} :
          IF r.tag = "next"
          THEN /\ reader' = [reader EXCEPT !.cur = r.addr]
               /\ UNCHANGED <<out, pinned>>
          ELSE /\ reader' = [pc |-> "idle"]
               /\ out' = Returns([tag |-> "Ok"])
               /\ pinned' = Unpin(Reader)
    /\ UNCHANGED <<table, mem, alloc, pc, req, delta, node, installed, nwrites, garbage,
                   retries, epoch, bench, size>>

\* The writers of this specification: reclamation looks at addresses and
\* next links, never at keys, so every write is a put of the first user key
\* at LSN 1 whose delta page is allocated.
EpochUpdate(t) ==
    /\ Update(t)
    /\ pc'[t] = "find"
    /\ Unwrap(req'[t]).key = Key(<<1>>, 1)
    /\ Unwrap(req'[t]).value.tag = "Put"

\* The steps of a writer's request once it has started.
ThreadStep(t) ==
    \/ FindNode(t)
    \/ TryUpdate(t)
    \/ Consolidate(t)

\* The writers and the gets under fair scheduling: a thread whose request
\* can take a step eventually takes one. Progress looks at the slot and the
\* CASes on it, never at keys, so the writes are those of EpochUpdate.
NextFair ==
    \/ \E t \in Threads :
        \/ EpochUpdate(t)
        \/ ThreadStep(t)
    \/ Get

SpecFair == Init /\ [][NextFair]_vars /\ \A t \in Threads : WF_vars(ThreadStep(t))

NextEpoch ==
    \/ \E t \in Threads :
        \/ EpochUpdate(t)
        \/ FindNode(t)
        \/ TryUpdate(t)
        \/ Consolidate(t)
    \/ GetPin
    \/ GetFind
    \/ GetWalk
    \/ Reclaim

SpecEpoch == Init /\ [][NextEpoch]_vars

\* ---------------------------------------------------------- a long chain

\* BTree::open with room for as many delta pages as the chain-length field
\* has values.
InitChain ==
    /\ table = [id \in PageIds |-> IF id = LEAF_ID THEN 1 ELSE 2]
    /\ mem = [a \in 0..(LEN_VALUES + 2) |->
                 IF a = 1 THEN InitLeafPage ELSE IF a = 2 THEN InitRootPage ELSE FreePage]
    /\ alloc = {1, 2}
    /\ pc = [t \in Threads |-> "idle"]
    /\ req = [t \in Threads |-> None]
    /\ delta = [t \in Threads |-> 0]
    /\ node = [t \in Threads |-> None]
    /\ installed = <<>>
    /\ nwrites = 0
    /\ garbage = {}
    /\ retries = 0
    /\ out = None
    /\ epoch = 0
    /\ pinned = [p \in Participants |-> None]
    /\ reader = [pc |-> "idle"]
    /\ size = AllocSize(InitLeafPage) + AllocSize(InitRootPage)
    /\ drive = [kind |-> "none"]
    /\ probe = [kind |-> "none"]

\* A put by the only writer, from BTree::put to its return, while the
\* allocator refuses every consolidated page: the delta page is built at the
\* next address, stamped with the head's version, length + 1 and address, and
\* published by a CAS that nothing contends; try_consolidate_node fails with
\* Error::Alloc, which `let _ =` drops. `node.view.len() + 1` is u8
\* arithmetic: with the head's length at 255 it panics in a build with
\* overflow checks and wraps to 0 in a build without.
PutAlone ==
    /\ pc["t1"] = "idle"
    /\ nwrites < LEN_VALUES
    /\ \E checks \in BOOLEAN :
        LET key == Key(<<1>>, 1)
            d == nwrites + 3
            nd == TryFindNode(key.raw).node
            page == BuildFromIter(OptionIter(Some(<<key, Put(<<1>>)>>)))
            stamped == SetNext(SetLen(SetVer(page, ViewVer(nd.view)),
                                      ViewLen(nd.view) + 1), nd.view)
        IN /\ alloc' = alloc \cup {d}
           /\ size' = size + AllocSize(page)
           /\ nwrites' = nwrites + 1
           /\ IF checks /\ ViewLen(nd.view) + 1 >= LEN_VALUES
              THEN /\ mem' = [mem EXCEPT ![d] = page]
                   /\ pc' = [pc EXCEPT !["t1"] = "panic"]
                   /\ delta' = [delta EXCEPT !["t1"] = d]
                   /\ UNCHANGED <<table, installed, out>>
              ELSE /\ mem' = [mem EXCEPT ![d] = stamped]
                   /\ table' = TableCas(nd.id, stamped.next, d).table
                   /\ installed' = Append(installed,
                          [key |-> key, value |-> Put(<<1>>), ret |-> Some("Ok"),
                           cons |-> IF stamped.len >= DataDeltaLength
                                    THEN "Alloc" ELSE "none"])
                   /\ out' = Returns([tag |-> "Ok"])
                   /\ UNCHANGED <<pc, delta>>
    /\ UNCHANGED <<req, node, garbage, retries, epoch, pinned, reader, bench>>

SpecChain == InitChain /\ [][PutAlone]_vars

\* ------------------------------------------------- iterators on their own

\* The keys the inputs are drawn from, in ascending order of Key::cmp.
IterKeys == <<Key(<<1>>, 2), Key(<<1>>, 1), Key(<<2>>, 1)>>

\* The ascending run that holds the keys at the positions S; its values
\* carry the number c of the child they come from.
RECURSIVE RunOf(_, _, _)
RunOf(S, c, i) ==
    IF i > Len(IterKeys) THEN <<>>
    ELSE (IF i \in S THEN <<<<IterKeys[i], Put(<<c>>)>>>> ELSE <<>>) \o RunOf(S, c, i + 1)

Runs(c) == {RunOf(S, c, 1) : S \in SUBSET (1..Len(IterKeys))}

\* The inputs of a merge: up to MaxChildren runs, child c's made of entries
\* tagged c.
RECURSIVE RunLists(_)
RunLists(n) ==
    IF n = 0 THEN {<<>>}
    ELSE {Append(rest, run) : rest \in RunLists(n - 1), run \in Runs(n)}

\* A leaf iterator over a run: SliceIter::from(&data), OptionIter::from of
\* the run's only entry, page.iter() on the page built from the run.
MakeLeaf(kind, data) ==
    IF kind = "slice" THEN SliceIter(data)
    ELSE IF kind = "option"
    THEN OptionIter(IF data = <<>> THEN None ELSE Some(data[1]))
    ELSE DataPageIter(BuildFromIter(SliceIter(data)))

\* MergingIterBuilder: add() for every run in turn, then build().
RECURSIVE AddAll(_, _)
AddAll(child, runs) ==
    IF runs = <<>> THEN <<>>
    ELSE <<MakeLeaf(child, Head(runs))>> \o AddAll(child, Tail(runs))

MakeIter(kind, child, data) ==
    IF kind = "merging" THEN MergingIter(AddAll(child, data)) ELSE MakeLeaf(kind, data)

\* An iterator just made from its input, before the first next().
Started(kind, child, data) ==
    [kind |-> kind, child |-> child, data |-> data, it |-> MakeIter(kind, child, data),
     seen |-> <<>>, done |-> FALSE, rewinds |-> 0, sought |-> None]

IterStarts ==
    {Started(kind, kind, data) : kind \in {"slice", "page"}, data \in Runs(1)}
        \cup {Started("option", "option", data) : data \in {r \in Runs(1) : Len(r) <= 1}}
        \cup UNION {{Started("merging", child, data) : child \in {"slice", "page"},
                                                        data \in RunLists(n)}
                        : n \in 0..MaxChildren}

InitIter ==
    /\ Fresh
    /\ drive \in IterStarts
    /\ probe = [kind |-> "none"]

\* What a next() leaves: the iterator afterwards, the entry added to those
\* seen, and whether it returned None.
AfterNext(r) ==
    [drive EXCEPT !.it = r.it,
                  !.seen = IF IsSome(r.ret) THEN Append(@, Unwrap(r.ret)) ELSE @,
                  !.done = ~IsSome(r.ret)]

\* next() on the iterator, until it has returned None.
DriveNext ==
    /\ drive.kind # "none"
    /\ ~drive.done
    /\ Len(drive.seen) < MaxSeen
    /\ drive' = AfterNext(IterNext(drive.it))
    /\ UNCHANGED <<table, mem, alloc, pc, req, delta, node, installed, nwrites, garbage,
                   retries, out, epoch, pinned, reader, probe, size>>

\* rewind() on the iterator, at any point.
DriveRewind ==
    /\ drive.kind # "none"
    /\ drive.rewinds < MaxRewinds
    /\ drive' = [drive EXCEPT !.it = IterRewind(drive.it), !.seen = <<>>,
                              !.done = FALSE, !.rewinds = @ + 1, !.sought = None]
    /\ UNCHANGED <<table, mem, alloc, pc, req, delta, node, installed, nwrites, garbage,
                   retries, out, epoch, pinned, reader, probe, size>>

NextIter ==
    \/ DriveNext
    \/ DriveRewind

SpecIter == InitIter /\ [][NextIter]_vars

\* The keys sought: below, at, between and above the keys of the entries.
SeekTargets == {Key(<<1>>, 3), Key(<<1>>, 2), Key(<<1>>, 1), Key(<<1>>, 0), Key(<<2>>, 0)}

\* seek(target) on a seekable iterator, at any point; the target is kept,
\* with whether the pass had yielded an entry when it was sought.
DriveSeek ==
    /\ drive.kind \in {"merging", "slice", "page"}
    /\ drive.rewinds < MaxRewinds
    /\ \E target \in SeekTargets :
           drive' = [drive EXCEPT
                        !.it = IF drive.kind = "merging" THEN MergingIterSeek(drive.it, target)
                               ELSE IF drive.kind = "slice" THEN SliceIterSeek(drive.it, target)
                               ELSE DataPageIterSeek(drive.it, target),
                        !.seen = <<>>, !.done = FALSE, !.rewinds = @ + 1,
                        !.sought = Some([target |-> target, mid |-> drive.seen # <<>>])]
    /\ UNCHANGED <<table, mem, alloc, pc, req, delta, node, installed, nwrites, garbage,
                   retries, out, epoch, pinned, reader, probe, size>>

SpecSeek == InitIter /\ [][DriveNext \/ DriveRewind \/ DriveSeek]_vars

\* ------------------------------------------------- data pages on their own

\* The entries the inputs are made of, and the inputs: every sequence of at
\* most MaxEntries of them, in any order and with repetitions.
PageEntries == {<<IterKeys[i], v>> : i \in 1..Len(IterKeys), v \in {Put(<<1>>), Delete}}

RECURSIVE PageInputs(_)
PageInputs(n) ==
    IF n = 0 THEN {<<>>}
    ELSE PageInputs(n - 1)
            \cup {Append(data, e) : data \in {d \in PageInputs(n - 1) : Len(d) = n - 1},
                                    e \in PageEntries}

\* The keys a page is asked for: below, at, between and above the keys of
\* the entries.
ProbeTargets == {Key(raw, lsn) : raw \in UserKeys, lsn \in 0..(MaxLsn + 1)}

InitPage ==
    /\ Fresh
    /\ drive = [kind |-> "none"]
    /\ probe \in {[kind |-> "input", data |-> data] : data \in PageInputs(MaxEntries)}

\* DataPageBuilder::default().build_from_iter(&ALLOC, &mut SliceIter::from(&data)).
ProbeBuild ==
    /\ probe.kind = "input"
    /\ probe' = [kind |-> "built", data |-> probe.data,
                 page |-> BuildFromIter(SliceIter(probe.data))]
    /\ UNCHANGED <<table, mem, alloc, pc, req, delta, node, installed, nwrites, garbage,
                   retries, out, epoch, pinned, reader, drive, size>>

\* What a seek on the built page leaves to look at.
Sought(op, target, ret) ==
    [kind |-> "sought", data |-> probe.data, page |-> probe.page,
     op |-> op, target |-> target, ret |-> ret]

\* page.seek(&target).
ProbeSeek ==
    /\ probe.kind = "built"
    /\ \E target \in ProbeTargets :
           probe' = Sought("seek", target, DataPageSeek(probe.page, target))
    /\ UNCHANGED <<table, mem, alloc, pc, req, delta, node, installed, nwrites, garbage,
                   retries, out, epoch, pinned, reader, drive, size>>

\* page.seek_back(&target).
ProbeSeekBack ==
    /\ probe.kind = "built"
    /\ \E target \in ProbeTargets :
           probe' = Sought("seek_back", target, DataPageSeekBack(probe.page, target))
    /\ UNCHANGED <<table, mem, alloc, pc, req, delta, node, installed, nwrites, garbage,
                   retries, out, epoch, pinned, reader, drive, size>>

NextPage ==
    \/ ProbeBuild
    \/ ProbeSeek
    \/ ProbeSeekBack

SpecPage == InitPage /\ [][NextPage]_vars

\* ---------------------------------------------- index chains on their own

\* The separators of the index pages, ascending, and the keys looked up:
\* below, at, between and above them.
Separators == <<<<1>>, <<2>>, <<3>>>>
IndexTargets == {<<>>, <<1>>, <<2>>, <<2, 1>>, <<3>>}

\* The entries of the page at position p of a chain that holds the
\* separators numbered in S, from the i-th separator on, in key order; every
\* entry of a chain names a child of its own.
RECURSIVE IndexEntries(_, _, _)
IndexEntries(p, S, i) ==
    IF i > Len(Separators) THEN <<>>
    ELSE (IF i \in S
          THEN <<<<RawKey(Separators[i]), Index((p - 1) * Len(Separators) + i, 0)>>>>
          ELSE <<>>) \o IndexEntries(p, S, i + 1)

\* The chains: at most MaxPages pages, each with any of the separators.
IndexChains ==
    UNION {[1..n -> SUBSET (1..Len(Separators))] : n \in 1..MaxPages}

\* The memory that holds a chain: the page at position a is built by
\* build_from_iter at address a, marked as an index page and linked by
\* set_len and set_next to the page below it.
ChainMem(chain) ==
    [a \in 1..Len(chain) |->
        SetNext(SetLen(SetIndex(BuildFromIter(SliceIter(IndexEntries(a, chain[a], 1))), TRUE),
                       Len(chain) - a),
                IF a < Len(chain) THEN a + 1 ELSE 0)]

InitIndex ==
    /\ Fresh
    /\ drive = [kind |-> "none"]
    /\ probe \in {[kind |-> "chain", chain |-> chain] : chain \in IndexChains}

\* lookup_index(raw, node) on the node whose view is the head of the chain.
ProbeLookupIndex ==
    /\ probe.kind = "chain"
    /\ \E raw \in IndexTargets :
           probe' = [kind |-> "looked", chain |-> probe.chain, raw |-> raw,
                     ret |-> LookupIndex(ChainMem(probe.chain), raw,
                                         [id |-> ROOT_ID, view |-> 1])]
    /\ UNCHANGED <<table, mem, alloc, pc, req, delta, node, installed, nwrites, garbage,
                   retries, out, epoch, pinned, reader, drive, size>>

SpecIndex == InitIndex /\ [][ProbeLookupIndex]_vars

\* ------------------------------------------------- the header on its own

\* The n low bytes of a value, little-endian, and the value of little-endian
\* bytes.
RECURSIVE ToLe(_, _)
ToLe(value, n) == IF n = 0 THEN <<>> ELSE <<value % 256>> \o ToLe(value \div 256, n - 1)
RECURSIVE FromLe(_)
FromLe(bytes) == IF bytes = <<>> THEN 0 ELSE Head(bytes) + 256 * FromLe(Tail(bytes))

\* ptr.read() of n bytes at a byte offset of the header, and ptr.write().
ReadAt(header, at, n) == SubSeq(header, at + 1, at + n)
WriteAt(header, at, bytes) ==
    SubSeq(header, 1, at) \o bytes \o SubSeq(header, at + Len(bytes) + 1, Len(header))

\* Where the fields lie: ver_ptr, len_ptr, tag_ptr, next_ptr (the second
\* u64) and content_size_ptr (the fifth u32).
VerAt == 0
LenAt == PAGE_VERSION_SIZE
TagAt == PAGE_VERSION_SIZE + 1
NextAt == 8 * 1
ContentSizeAt == 4 * 4

\* PagePtr::ver, len, next, kind, is_index and content_size, as one record.
HeaderFields(header) ==
    [ver |-> FromLe(ReadAt(header, VerAt, PAGE_VERSION_SIZE)),
     len |-> header[LenAt + 1],
     next |-> FromLe(ReadAt(header, NextAt, 8)),
     kind |-> TagKind(header[TagAt + 1]),
     is_index |-> TagIsIndex(header[TagAt + 1]),
     content_size |-> FromLe(ReadAt(header, ContentSizeAt, 4))]

\* PagePtr::set_default, set_ver, set_len, set_next, set_kind, set_index and
\* set_content_size, named by the field they set.
HeaderSet(header, field, arg) ==
    IF field = "default" THEN ToLe(0, PAGE_HEADER_SIZE)
    ELSE IF field = "ver" THEN WriteAt(header, VerAt, ToLe(arg, PAGE_VERSION_SIZE))
    ELSE IF field = "len" THEN WriteAt(header, LenAt, <<arg>>)
    ELSE IF field = "next" THEN WriteAt(header, NextAt, ToLe(arg, 8))
    ELSE IF field = "kind"
    THEN WriteAt(header, TagAt, <<TagWithKind(header[TagAt + 1], arg)>>)
    ELSE IF field = "is_index"
    THEN WriteAt(header, TagAt, <<TagWithIndex(header[TagAt + 1], arg)>>)
    ELSE WriteAt(header, ContentSizeAt, ToLe(arg, 4))

\* The values the setters are called with: one, two and three bytes wide.
HeaderArgs ==
    [ver |-> {0, 1, 513}, len |-> {0, 2, 255}, next |-> {0, 3, 66051},
     kind |-> {KindData, KindSplit}, is_index |-> BOOLEAN, content_size |-> {0, 4, 772}]

\* `let mut buf = [1u8; PAGE_HEADER_SIZE]`: memory as the allocator hands
\* it out, before set_default.
InitHeader ==
    /\ Fresh
    /\ drive = [kind |-> "none"]
    /\ probe = [kind |-> "raw", header |-> [i \in 1..PAGE_HEADER_SIZE |-> 1]]

\* ptr.set_default(), on the raw buffer and on a header in use.
ProbeSetDefault ==
    /\ probe.kind \in {"raw", "header"}
    /\ probe' = [kind |-> "header", was |-> probe.header, field |-> "default",
                 arg |-> 0, header |-> HeaderSet(probe.header, "default", 0)]
    /\ UNCHANGED <<table, mem, alloc, pc, req, delta, node, installed, nwrites, garbage,
                   retries, out, epoch, pinned, reader, drive, size>>

\* One of the setters, on a header that set_default has initialised.
ProbeSet ==
    /\ probe.kind = "header"
    /\ \E field \in DOMAIN HeaderArgs : \E arg \in HeaderArgs[field] :
           probe' = [kind |-> "header", was |-> probe.header, field |-> field,
                     arg |-> arg, header |-> HeaderSet(probe.header, field, arg)]
    /\ UNCHANGED <<table, mem, alloc, pc, req, delta, node, installed, nwrites, garbage,
                   retries, out, epoch, pinned, reader, drive, size>>

SpecHeader == InitHeader /\ [][ProbeSetDefault \/ ProbeSet]_vars

\* ------------------------------------------------ versions on their own

\* A u64 is kept as its eight little-endian bytes, so that 2^48 and 2^64
\* keep their places. PAGE_VERSION_MAX is (1 << 48) - 1.
PAGE_VERSION_MAX == <<255, 255, 255, 255, 255, 255, 0, 0>>

\* a <= b on u64s: the most significant byte that differs decides.
RECURSIVE U64Le(_, _)
U64Le(a, b) ==
    IF a = <<>> THEN TRUE
    ELSE IF a[Len(a)] # b[Len(b)] THEN a[Len(a)] < b[Len(b)]
    ELSE U64Le(SubSeq(a, 1, Len(a) - 1), SubSeq(b, 1, Len(b) - 1))

\* self.0 + 1 on a u64: the carry runs up from the least significant byte.
RECURSIVE U64Succ(_)
U64Succ(a) ==
    IF a = <<>> THEN <<>>
    ELSE IF Head(a) = 255 THEN <<0>> \o U64Succ(Tail(a))
    ELSE <<Head(a) + 1>> \o Tail(a)

\* A PageVer::new without its assertion.
PageVerNewUnchecked(ver) == [tag |-> "Ok", ver |-> ver]

\* PageVer::new: assert!(ver <= PAGE_VERSION_MAX).
PageVerNew(ver) ==
    IF U64Le(ver, PAGE_VERSION_MAX) THEN [tag |-> "Ok", ver |-> ver]
    ELSE [tag |-> "Panic"]

\* PageVer::next: Self::new(self.0 + 1).
PageVerNext(ver) == PageVerNew(U64Succ(ver))

\* PagePtr::set_ver copies the PAGE_VERSION_SIZE low bytes of the version
\* to ver_ptr; PagePtr::ver copies them back into a zeroed u64.
HeaderSetVer(header, ver) == WriteAt(header, VerAt, SubSeq(ver, 1, PAGE_VERSION_SIZE))
HeaderVer(header) ==
    ReadAt(header, VerAt, PAGE_VERSION_SIZE) \o ToLe(0, 8 - PAGE_VERSION_SIZE)

\* The u64s tried: every byte 0, 1 or 255.
VerInputs == [1..8 -> {0, 1, 255}]

InitVer ==
    /\ Fresh
    /\ drive = [kind |-> "none"]
    /\ probe \in {[kind |-> "u64", ver |-> ver] : ver \in VerInputs}

\* PageVer::new(ver).
ProbeVerNew ==
    /\ probe.kind = "u64"
    /\ probe' = [kind |-> "new", ver |-> probe.ver, ret |-> PageVerNew(probe.ver)]
    /\ UNCHANGED <<table, mem, alloc, pc, req, delta, node, installed, nwrites, garbage,
                   retries, out, epoch, pinned, reader, drive, size>>

\* next() on a version that PageVer::new has accepted.
ProbeVerNext ==
    /\ probe.kind = "new" /\ probe.ret.tag = "Ok"
    /\ probe' = [kind |-> "next", ver |-> probe.ver, ret |-> PageVerNext(probe.ret.ver)]
    /\ UNCHANGED <<table, mem, alloc, pc, req, delta, node, installed, nwrites, garbage,
                   retries, out, epoch, pinned, reader, drive, size>>

\* set_ver(v) on a default header, then ver(), for an accepted version.
ProbeSetVer ==
    /\ probe.kind = "new" /\ probe.ret.tag = "Ok"
    /\ probe' = [kind |-> "stored", ver |-> probe.ver,
                 header |-> HeaderSetVer(HeaderSet(ToLe(1, PAGE_HEADER_SIZE), "default", 0),
                                         probe.ret.ver)]
    /\ UNCHANGED <<table, mem, alloc, pc, req, delta, node, installed, nwrites, garbage,
                   retries, out, epoch, pinned, reader, drive, size>>

SpecVer == InitVer /\ [][ProbeVerNew \/ ProbeVerNext \/ ProbeSetVer]_vars

\* ----------------------------------------------- addresses on their own

\* MEM_DISK_MASK is bit 63, the top bit of the most significant byte of a
\* u64 kept as eight little-endian bytes.
TOP_BIT == 128
HasMask(x) == x[8] >= TOP_BIT
WithMask(x) == IF HasMask(x) THEN x ELSE [x EXCEPT ![8] = @ + TOP_BIT]
WithoutMask(x) == IF HasMask(x) THEN [x EXCEPT ![8] = @ - TOP_BIT] ELSE x

\* PageAddr::Mem(addr) and PageAddr::Disk(addr).
MemAddr(addr) == [tag |-> "Mem", addr |-> addr]
DiskAddr(addr) == [tag |-> "Disk", addr |-> addr]

\* From<u64> for PageAddr.
PageAddrFrom(x) == IF ~HasMask(x) THEN MemAddr(x) ELSE DiskAddr(WithoutMask(x))

\* An encoding that leaves the mask out.
PageAddrIntoBare(a) == a.addr

\* From<PageAddr> for u64.
PageAddrInto(a) == IF a.tag = "Mem" THEN a.addr ELSE WithMask(a.addr)

\* The slot values tried: the seven low bytes 0 or 255, the high byte on
\* either side of the mask.
SlotInputs ==
    {low \o <<high>> : low \in [1..7 -> {0, 255}], high \in {0, 1, 127, 128, 129, 255}}

InitAddr ==
    /\ Fresh
    /\ drive = [kind |-> "none"]
    /\ probe \in {[kind |-> "slot", x |-> x] : x \in SlotInputs}

\* PageAddr::from(x), and u64::from of the result.
ProbeDecode ==
    /\ probe.kind = "slot"
    /\ probe' = [kind |-> "decoded", x |-> probe.x, addr |-> PageAddrFrom(probe.x),
                 back |-> PageAddrInto(PageAddrFrom(probe.x))]
    /\ UNCHANGED <<table, mem, alloc, pc, req, delta, node, installed, nwrites, garbage,
                   retries, out, epoch, pinned, reader, drive, size>>

\* u64::from of a Mem or a Disk address whose bit 63 is clear, and
\* PageAddr::from of the result.
ProbeEncode ==
    /\ probe.kind = "slot" /\ ~HasMask(probe.x)
    /\ \E a \in {MemAddr(probe.x), DiskAddr(probe.x)} :
           probe' = [kind |-> "encoded", x |-> probe.x, addr |-> a,
                     slot |-> PageAddrInto(a),
                     back |-> PageAddrFrom(PageAddrInto(a))]
    /\ UNCHANGED <<table, mem, alloc, pc, req, delta, node, installed, nwrites, garbage,
                   retries, out, epoch, pinned, reader, drive, size>>

SpecAddr == InitAddr /\ [][ProbeDecode \/ ProbeEncode]_vars

\* ------------------------------------------------ BTreeMap pages (page.rs)

\* A BTreeMap<Vec<u8>, V> is a function from its keys; the keys in order.
EmptyMap == [k \in {} |-> <<>>]
MapInsert(map, key, value) ==
    [k \in DOMAIN map \cup {key} |-> IF k = key THEN value ELSE map[k]]
MapRemove(map, key) == [k \in DOMAIN map \ {key} |-> map[k]]

RECURSIVE SortedKeys(_)
SortedKeys(S) ==
    IF S = {} THEN <<>>
    ELSE LET least == CHOOSE k \in S : \A j \in S : CmpBytes(k, j) # "Greater"
         IN <<least>> \o SortedKeys(S \ {least})

\* BTreeMap::split_off(&key): the entries at and after the key, and those
\* left behind.
SplitOff(map, key) == [k \in {j \in DOMAIN map : CmpBytes(j, key) # "Less"} |-> map[k]]
SplitLeft(map, key) == [k \in {j \in DOMAIN map : CmpBytes(j, key) = "Less"} |-> map[k]]

\* The fold `acc + k.len() + v.len()` over the records.
RECURSIVE RecordsSize(_)
RecordsSize(records) ==
    IF DOMAIN records = {} THEN 0
    ELSE LET k == CHOOSE j \in DOMAIN records : TRUE
         IN Len(k) + Len(records[k]) + RecordsSize(MapRemove(records, k))

\* BaseData::new and BaseData::get.
BaseDataNew == [size |-> 0, lowest |-> <<>>, highest |-> <<>>, records |-> EmptyMap]
BaseDataGet(base, key) ==
    IF key \in DOMAIN base.records THEN Some(base.records[key]) ELSE None

\* One turn of the loop of BaseData::apply, on a record of the delta: a put
\* adds the key's and the value's length and takes off the length of the
\* value it replaces; a delete takes off both lengths of the record removed.
BaseDataApplyRecord(base, key, value) ==
    IF IsSome(value)
    THEN [base EXCEPT
            !.records = MapInsert(base.records, key, Unwrap(value)),
            !.size = (base.size + Len(key) + Len(Unwrap(value)))
                        - (IF key \in DOMAIN base.records
                           THEN Len(base.records[key]) ELSE 0)]
    ELSE IF key \in DOMAIN base.records
    THEN [base EXCEPT !.records = MapRemove(base.records, key),
                      !.size = base.size - (Len(key) + Len(base.records[key]))]
    ELSE base

\* BaseData::apply: the records of the delta, in key order.
RECURSIVE BaseDataApplyFrom(_, _, _)
BaseDataApplyFrom(base, d, keys) ==
    IF keys = <<>> THEN base
    ELSE BaseDataApplyFrom(BaseDataApplyRecord(base, Head(keys), d.records[Head(keys)]),
                           d, Tail(keys))

BaseDataApply(base, d) ==
    BaseDataApplyFrom(base, d, SortedKeys(DOMAIN d.records))

\* A split at the key `keys().nth((len + 1) / 2 - 1)`.
SplitNthBefore(n) == ((n + 1) \div 2) - 1

\* The index handed to `keys().nth()`, counted from 0.
SplitNth(n) == (n + 1) \div 2

\* BaseData::split: None when the map has no key at the index; otherwise
\* the right node takes the key as its lowest, the node's highest and the
\* records from the key on, and the node keeps the rest.
BaseDataSplit(base) ==
    LET keys == SortedKeys(DOMAIN base.records)
        nth == SplitNth(Len(keys))
    IN IF nth + 1 <= Len(keys) /\ nth + 1 >= 1
       THEN LET key == keys[nth + 1]
                right == [size |-> RecordsSize(SplitOff(base.records, key)),
                          lowest |-> key, highest |-> base.highest,
                          records |-> SplitOff(base.records, key)]
            IN [left |-> [base EXCEPT !.records = SplitLeft(base.records, key),
                                      !.size = base.size - right.size,
                                      !.highest = key],
                right |-> Some(right)]
       ELSE [left |-> base, right |-> None]

\* A merge in which the other delta's entry wins.
DeltaDataMergeOther(self, other) ==
    [records |-> [k \in DOMAIN self.records \cup DOMAIN other.records |->
                     IF k \in DOMAIN other.records THEN other.records[k]
                     ELSE self.records[k]]]

\* DeltaData::new, DeltaData::add and DeltaData::merge: entry(key).or_insert.
DeltaDataMerge(self, other) ==
    [records |-> [k \in DOMAIN self.records \cup DOMAIN other.records |->
                     IF k \in DOMAIN self.records THEN self.records[k]
                     ELSE other.records[k]]]

\* The keys and values of the records tried, of different lengths, and the
\* deltas: every key absent, deleted or put.
DataKeys == {<<1>>, <<1, 2>>, <<2>>}
DataValues == {<<7>>, <<8, 9>>}
DeltaInputs ==
    UNION {{[records |-> r] : r \in [K -> {None} \cup {Some(v) : v \in DataValues}]} :
              K \in SUBSET DataKeys}

\* PageIndex { id, epoch }, and size_of_val of one: two 64-bit words.
PageIndex(id, e) == [id |-> id, epoch |-> e]
PAGE_INDEX_SIZE == 16

\* The fold `acc + k.len() + size_of_val(v)` over the children.
RECURSIVE ChildrenSize(_)
ChildrenSize(children) ==
    IF DOMAIN children = {} THEN 0
    ELSE LET k == CHOOSE j \in DOMAIN children : TRUE
         IN Len(k) + PAGE_INDEX_SIZE + ChildrenSize(MapRemove(children, k))

\* BaseIndex::new and BaseIndex::add.
BaseIndexNew == [size |-> 0, lowest |-> <<>>, highest |-> <<>>, children |-> EmptyMap]
BaseIndexAdd(base, key, index) ==
    [base EXCEPT !.children = MapInsert(base.children, key, index)]

\* `range(..=key).next_back()`: the greatest key of the map that is not
\* above the key, if any.
LastAtMost(map, key) ==
    LET below == {k \in DOMAIN map : CmpBytes(k, key) # "Greater"}
    IN IF below = {} THEN None
       ELSE Some(CHOOSE k \in below : \A j \in below : CmpBytes(j, k) # "Greater")

\* BaseIndex::get.
BaseIndexGet(base, key) ==
    IF IsSome(LastAtMost(base.children, key))
    THEN Some(base.children[Unwrap(LastAtMost(base.children, key))])
    ELSE None

\* `retain(|k, _| k <= &delta.lowest || k >= &delta.highest)`.
Retained(children, d) ==
    [k \in {j \in DOMAIN children :
              \/ CmpBytes(j, d.lowest) # "Greater"
              \/ CmpBytes(j, d.highest) # "Less"} |-> children[k]]

\* One turn of the loop of BaseIndex::apply: the child found at or before
\* delta.lowest takes the new epoch when it has the new child's id,
\* otherwise the new child is inserted at delta.lowest; then the keys
\* strictly between lowest and highest are removed.
BaseIndexApplyDelta(children, d) ==
    LET prev == LastAtMost(children, d.lowest)
    IN Retained(IF IsSome(prev) /\ children[Unwrap(prev)].id = d.new_child.id
                THEN [children EXCEPT ![Unwrap(prev)].epoch = d.new_child.epoch]
                ELSE MapInsert(children, d.lowest, d.new_child),
                d)

\* BaseIndex::apply: the deltas from the last to the first, then the size
\* computed afresh.
RECURSIVE ApplyDeltasRev(_, _)
ApplyDeltasRev(children, deltas) ==
    IF deltas = <<>> THEN children
    ELSE ApplyDeltasRev(BaseIndexApplyDelta(children, deltas[Len(deltas)]),
                        SubSeq(deltas, 1, Len(deltas) - 1))

BaseIndexApply(base, deltas) ==
    [base EXCEPT !.children = ApplyDeltasRev(base.children, deltas),
                 !.size = ChildrenSize(ApplyDeltasRev(base.children, deltas))]

\* BaseIndex::split, as BaseData::split on the children.
BaseIndexSplit(base) ==
    LET keys == SortedKeys(DOMAIN base.children)
        nth == SplitNth(Len(keys))
    IN IF nth + 1 <= Len(keys) /\ nth + 1 >= 1
       THEN LET key == keys[nth + 1]
                right == [size |-> ChildrenSize(SplitOff(base.children, key)),
                          lowest |-> key, highest |-> base.highest,
                          children |-> SplitOff(base.children, key)]
            IN [left |-> [base EXCEPT !.children = SplitLeft(base.children, key),
                                      !.size = base.size - right.size,
                                      !.highest = key],
                right |-> Some(right)]
       ELSE [left |-> base, right |-> None]

\* DeltaIndex::covers.
DeltaIndexCovers(d, key) ==
    IF CmpBytes(key, d.lowest) # "Less"
          /\ (CmpBytes(key, d.highest) = "Less" \/ d.highest = <<>>)
    THEN Some(d.new_child) ELSE None

\* The separators and children tried, and the deltas: a range of separators,
\* the upper one empty for no bound, and a child of a new epoch.
IndexKeys == {<<>>, <<1>>, <<2>>, <<3>>}
ChildIds == {1, 2, 3}
DeltaIndexInputs ==
    {[lowest |-> lo, highest |-> hi, new_child |-> PageIndex(id, 1)] :
        lo \in IndexKeys, hi \in IndexKeys, id \in ChildIds}

InitBase ==
    /\ Fresh
    /\ drive = [kind |-> "none"]
    /\ probe \in {[kind |-> "data", op |-> "new", base |-> BaseDataNew, ops |-> 0],
                  [kind |-> "index", op |-> "new", base |-> BaseIndexNew, ops |-> 0]}

\* index.add(key, child) on an index still being filled: a new separator for
\* a child the index does not yet name.
ProbeAdd ==
    /\ probe.kind = "index" /\ probe.op \in {"new", "add"}
    /\ Cardinality(DOMAIN probe.base.children) < MaxEntries
    /\ \E key \in IndexKeys \ DOMAIN probe.base.children :
       \E id \in ChildIds \ {probe.base.children[k].id : k \in DOMAIN probe.base.children} :
           probe' = [kind |-> "index", op |-> "add", ops |-> 0,
                     base |-> BaseIndexAdd(probe.base, key, PageIndex(id, 0))]
    /\ UNCHANGED <<table, mem, alloc, pc, req, delta, node, installed, nwrites, garbage,
                   retries, out, epoch, pinned, reader, drive, size>>

\* The deltas an index can be sent: the range starts in the range of one of
\* its children and ends at one of its separators or nowhere, and the new
\* child is either a child the index does not name or the child the range
\* starts in, from that child's separator on.
DeltasFor(base) ==
    {d \in DeltaIndexInputs :
        /\ IsSome(LastAtMost(base.children, d.lowest))
        /\ \/ d.highest = <<>>
           \/ CmpBytes(d.lowest, d.highest) = "Less" /\ d.highest \in DOMAIN base.children
        /\ LET prev == Unwrap(LastAtMost(base.children, d.lowest))
           IN IF base.children[prev].id = d.new_child.id THEN prev = d.lowest
              ELSE \A k \in DOMAIN base.children : base.children[k].id # d.new_child.id}

\* index.apply(vec![delta]).
ProbeIndexApply ==
    /\ probe.kind = "index" /\ probe.ops < MaxApplies
    /\ \E d \in DeltasFor(probe.base) :
           probe' = [kind |-> "index", op |-> "apply", was |-> probe.base, delta |-> d,
                     base |-> BaseIndexApply(probe.base, <<d>>), ops |-> probe.ops + 1]
    /\ UNCHANGED <<table, mem, alloc, pc, req, delta, node, installed, nwrites, garbage,
                   retries, out, epoch, pinned, reader, drive, size>>

\* index.split(); the node goes on as the left node.
ProbeIndexSplit ==
    /\ probe.kind = "index" /\ probe.ops < MaxApplies + 1
    /\ probe' = [kind |-> "index", op |-> "split", was |-> probe.base,
                 right |-> BaseIndexSplit(probe.base).right,
                 base |-> BaseIndexSplit(probe.base).left, ops |-> probe.ops + 1]
    /\ UNCHANGED <<table, mem, alloc, pc, req, delta, node, installed, nwrites, garbage,
                   retries, out, epoch, pinned, reader, drive, size>>

\* base.apply(delta).
ProbeApply ==
    /\ probe.kind = "data" /\ probe.ops < MaxApplies
    /\ \E d \in DeltaInputs :
           probe' = [kind |-> "data", op |-> "apply", was |-> probe.base, delta |-> d,
                     base |-> BaseDataApply(probe.base, d), ops |-> probe.ops + 1]
    /\ UNCHANGED <<table, mem, alloc, pc, req, delta, node, installed, nwrites, garbage,
                   retries, out, epoch, pinned, reader, drive, size>>

\* base.split(); the node goes on as the left node.
ProbeSplit ==
    /\ probe.kind = "data" /\ probe.ops < MaxApplies + 1
    /\ probe' = [kind |-> "data", op |-> "split", was |-> probe.base,
                 right |-> BaseDataSplit(probe.base).right,
                 base |-> BaseDataSplit(probe.base).left, ops |-> probe.ops + 1]
    /\ UNCHANGED <<table, mem, alloc, pc, req, delta, node, installed, nwrites, garbage,
                   retries, out, epoch, pinned, reader, drive, size>>

\* newer.merge(older), and the two ways of bringing both to the base.
ProbeMerge ==
    /\ probe.kind = "data" /\ probe.op = "apply" /\ probe.ops <= MaxApplies
    /\ \E newer \in DeltaInputs :
           probe' = [kind |-> "merged", was |-> probe.was, older |-> probe.delta,
                     newer |-> newer, merged |-> DeltaDataMerge(newer, probe.delta),
                     folded |-> BaseDataApply(probe.was, DeltaDataMerge(newer, probe.delta)),
                     base |-> BaseDataApply(probe.base, newer)]
    /\ UNCHANGED <<table, mem, alloc, pc, req, delta, node, installed, nwrites, garbage,
                   retries, out, epoch, pinned, reader, drive, size>>

NextBase ==
    \/ ProbeApply
    \/ ProbeSplit
    \/ ProbeMerge
    \/ ProbeAdd
    \/ ProbeIndexApply
    \/ ProbeIndexSplit

SpecBase == InitBase /\ [][NextBase]_vars

\* ------------------------------------------------------- reads and history

\* What get(raw, lsn) hands back in the current state, Some(bytes) or None,
\* and what it would hand back on the tree (tbl, m).
GetValue(raw, lsn) == GetResult(raw, lsn).value
GetValueIn(tbl, m, raw, lsn) == TryGetIn(tbl, m, Key(raw, lsn)).value

\* The writes of the history (as positions) on a user key, those a read at
\* LSN L may see, and the ones with the greatest LSN among them.
WritesOn(raw) == {i \in 1..Len(installed) : installed[i].key.raw = raw}
VisibleAt(raw, L) == {i \in WritesOn(raw) : installed[i].key.lsn <= L}
FreshestAt(raw, L) ==
    {i \in VisibleAt(raw, L) :
        \A j \in VisibleAt(raw, L) : installed[j].key.lsn <= installed[i].key.lsn}

\* The writes to a key carry pairwise distinct LSNs, and have all returned.
DistinctLsns(raw) ==
    \A i, j \in WritesOn(raw) : i # j => installed[i].key.lsn # installed[j].key.lsn
AllReturned(raw) == \A i \in WritesOn(raw) : IsSome(installed[i].ret)

\* What the writes of the history say a read must return: the variant with
\* the greatest LSN <= L, None when there is none or it is a tombstone.
Written(raw, L) ==
    IF VisibleAt(raw, L) = {} THEN None
    ELSE ValueInto(installed[CHOOSE i \in FreshestAt(raw, L) : TRUE].value)

\* -------------------------------------------------------------- claims

\* C1: for writes on one user key with pairwise distinct LSNs, installed in
\* any order and all returned, get(key, L) returns the variant written with
\* the greatest LSN <= L (None for a tombstone or when there is none), at
\* every L up to the greatest LSN.
C1_MvccRead ==
    \A raw \in UserKeys :
        (DistinctLsns(raw) /\ AllReturned(raw)) =>
            \A L \in 0..MaxLsn : GetValue(raw, L) = Written(raw, L)

\* C2: read-your-write. Once a put or delete of (k, lsn) has returned and no
\* later write to k is installed, get(k, lsn) returns what it wrote: Some(v)
\* for a put, None for a delete.
C2_ReadYourWrite ==
    \A i \in 1..Len(installed) :
        (/\ IsSome(installed[i].ret)
         /\ \A j \in WritesOn(installed[i].key.raw) : j <= i) =>
            GetValue(installed[i].key.raw, installed[i].key.lsn)
                = ValueInto(installed[i].value)

\* The reads a write of key at LSN n must leave alone: any other user key at
\* any LSN, and the same key below n.
Untouched(key, raw, L) == raw # key.raw \/ L < key.lsn

\* C3: snapshot stability. No step of a put or delete of key k at LSN n (the
\* install of its delta, the consolidation it triggers) changes get(k, L)
\* for L < n or get(k', L) for another key k'.
C3_SnapshotStable ==
    [][\A t \in Threads : (TryUpdate(t) \/ Consolidate(t)) =>
          \A raw \in UserKeys, L \in 0..MaxLsn :
              Untouched(Unwrap(req[t]).key, raw, L) =>
                  GetValueIn(table', mem', raw, L) = GetValue(raw, L)]_vars

\* C4: get(k, L) returns None whenever no write to k with LSN <= L is
\* installed, and a value it returns was written under k.
C4_NoneWithoutWrite ==
    \A raw \in UserKeys, L \in 0..MaxLsn :
        /\ VisibleAt(raw, L) = {} => GetValue(raw, L) = None
        /\ IsSome(GetValue(raw, L)) =>
              \E i \in WritesOn(raw) : installed[i].value = Put(Unwrap(GetValue(raw, L)))

\* C4's case: k has only versions above L and the leaf holds another key.
C4_Witness ==
    \E raw \in UserKeys, other \in UserKeys, L \in 0..MaxLsn :
        /\ other # raw
        /\ WritesOn(raw) # {} /\ VisibleAt(raw, L) = {}
        /\ WritesOn(other) # {}
        /\ AllReturned(raw) /\ AllReturned(other)
        /\ GetValue(raw, L) = None

\* C5_AgainNeverReturned's case: an Error::Again was consumed by a retry loop
\* and a request has returned.
C5_Witness == retries > 0 /\ IsSome(out)

\* C5: Error::Again is never returned to a caller of get, put or delete;
\* whatever Result try_get or try_update produces, the loop at the request
\* entry consumes every Again and runs the request again.
C5_AgainNeverReturned == out # Returns([tag |-> "Again"])

\* The chain at addr holds the entry (key, value) in one of its data pages.
ChainHolds(m, addr, key, value) ==
    \E n \in DOMAIN ChainFrom(m, addr) :
        \E i \in 1..DataPageLen(m[ChainFrom(m, addr)[n]]) :
            DataPageGet(m[ChainFrom(m, addr)[n]], i - 1) = Some(<<key, value>>)

\* The consolidation run by t fails in this step.
ConsolidationFails(t) == installed'[Unwrap(req[t]).at].cons \in {"Alloc", "Again"}

ForcedConsolidation ==
    /\ Len(installed) = DataDeltaLength
    /\ \A i \in 1..Len(installed) :
          /\ installed[i].value.tag = "Put"
          /\ installed[i].ret = Some("Ok")
          /\ installed[i].cons = IF i = DataDeltaLength THEN "Ok" ELSE "none"
          /\ \A j \in 1..Len(installed) :
                i # j => installed[i].key.raw # installed[j].key.raw

\* C7: forced consolidation. After the DataDeltaLength-th insert of distinct
\* keys into a fresh tree the leaf's slot points to a single page (next = 0)
\* whose chain-length field is 1, and every key inserted is readable.
C7_ForcedConsolidation ==
    ForcedConsolidation =>
        /\ mem[table[LEAF_ID]].next = 0
        /\ mem[table[LEAF_ID]].len = 1
        /\ \A i \in 1..Len(installed) :
              GetValue(installed[i].key.raw, installed[i].key.lsn)
                  = ValueInto(installed[i].value)

\* C8: for every slot that holds an address, the chain-length field of the
\* page at that address equals the number of pages reachable from it by
\* next links.
C8_ChainLength ==
    \A id \in PageIds :
        table[id] # 0 => mem[table[id]].len = Len(ChainFrom(mem, table[id]))

\* C9: consolidation preserves reads. When a consolidation publishes its
\* page, lookup_value of every (k, L) on the new page equals lookup_value of
\* (k, L) on the chain that was consolidated.
C9_ConsolidationPreservesReads ==
    [][\A t \in Threads : (Consolidate(t) /\ table' # table) =>
          \A raw \in UserKeys, L \in 0..MaxLsn :
              LookupValueWalk(mem', table'[Unwrap(node[t]).id], Key(raw, L))
                  = LookupValueWalk(mem, Unwrap(node[t]).view, Key(raw, L))]_vars

\* The keys of a data page are strictly ascending under Key::cmp.
StrictlyAscending(page) ==
    \A i \in 1..(DataPageLen(page) - 1) :
        KeyCmp(Unwrap(DataPageGet(page, i - 1))[1], Unwrap(DataPageGet(page, i))[1])
            = "Less"

\* C10: once every put and delete has returned, the keys of every data page
\* reachable from the mapping table are strictly ascending: user bytes
\* ascending, LSN descending, no two entries with an equal key.
C10_StrictlyAscending ==
    (\A t \in Threads : pc[t] = "idle") =>
        \A id \in PageIds : \A n \in DOMAIN ChainFrom(mem, table[id]) :
            IsDataPage(mem[ChainFrom(mem, table[id])[n]]) =>
                StrictlyAscending(mem[ChainFrom(mem, table[id])[n]])

\* The pages the pinned requests have reached or will reach by next links:
\* the chain the reader found at the slot, and the chain under the view a
\* writer holds.
HeldPages ==
    (IF reader.pc = "walk" THEN DeallocPageChain(reader.head) ELSE {})
        \cup UNION {IF IsSome(node[t]) THEN DeallocPageChain(Unwrap(node[t]).view) ELSE {}
                        : t \in Threads}

\* C11: epoch safety. No step deallocates a page that a request holding its
\* guard reached from a slot or reaches by next links, also when a writer
\* has consolidated the chain and swung the slot in the meantime.
C11_EpochSafety == [][\A a \in alloc \ alloc' : a \notin HeldPages]_vars

\* C11's case: the reader is in the middle of a chain that a consolidation
\* has replaced and handed to defer, and the reclaimer has run since.
C11_Witness ==
    /\ reader.pc = "walk"
    /\ reader.cur # reader.head
    /\ \E g \in garbage : g.addr = reader.head /\ g.epoch < epoch

\* The pages whose address has been stored in a slot: those reachable from
\* the slots, and the chains a consolidation unlinked.
Published ==
    UNION {DeallocPageChain(table[id]) : id \in PageIds}
        \cup UNION {DeallocPageChain(g.addr) : g \in garbage}

\* C12: pages are immutable after publication. No step changes the header
\* or the content of a page whose address has been stored in a slot; the
\* setters only ever run on a page no slot can reach yet.
C12_ImmutableAfterPublication == [][\A a \in Published : mem'[a] = mem[a]]_vars

\* C12's case: a writer whose CAS failed has stamped its delta again, while
\* a consolidated page and the chain it replaced are published.
C12_Witness ==
    /\ garbage # {}
    /\ \E t \in Threads :
          /\ pc[t] = "cas"
          /\ mem[delta[t]].next # 0
          /\ mem[delta[t]].next # Unwrap(node[t]).view
          /\ delta[t] \notin Published

\* The keys of a sequence of entries never descend.
Ascending(entries) ==
    \A i \in 1..(Len(entries) - 1) :
        KeyCmp(entries[i][1], entries[i + 1][1]) # "Greater"

\* The children's entries, one run after the other.
RECURSIVE Concat(_)
Concat(runs) == IF runs = <<>> THEN <<>> ELSE Head(runs) \o Concat(Tail(runs))

\* Two sequences hold the same entries the same number of times.
Count(e, entries) == Cardinality({i \in DOMAIN entries : entries[i] = e})
SameBag(a, b) ==
    /\ Len(a) = Len(b)
    /\ \A i \in DOMAIN a : Count(a[i], a) = Count(a[i], b)

\* C13: a MergingIter over N ascending children yields, by next() until
\* None, entries whose keys never descend, and when it returns None it has
\* yielded every entry of every child exactly as often as the children hold
\* it; N = 0, empty children and children of different lengths included.
C13_MergeSorted ==
    (drive.kind = "merging" /\ drive.rewinds = 0) =>
        /\ Ascending(drive.seen)
        /\ drive.done => SameBag(drive.seen, Concat(drive.data))

\* C13's case: a finished merge of three children of different lengths, one
\* of them empty, with one key in two children.
C13_Witness ==
    /\ drive.kind = "merging" /\ drive.rewinds = 0 /\ drive.done
    /\ Len(drive.data) = 3
    /\ \E c \in 1..3 : drive.data[c] = <<>>
    /\ \E c, d \in 1..3 : Len(drive.data[c]) > Len(drive.data[d]) /\ drive.data[d] # <<>>
    /\ \E i, j \in DOMAIN drive.seen : i # j /\ drive.seen[i][1] = drive.seen[j][1]

\* The entries a pass of next() until None yields from the iterator it, at
\* most n of them.
RECURSIVE PassFrom(_, _)
PassTurn(r, n) ==
    IF IsSome(r.ret) THEN <<Unwrap(r.ret)>> \o PassFrom(r.it, n - 1) ELSE <<>>

PassFrom(it, n) == IF n = 0 THEN <<>> ELSE PassTurn(IterNext(it), n)

\* The first full pass over the iterator as it was made.
FirstPass == PassFrom(MakeIter(drive.kind, drive.child, drive.data), MaxSeen)

IsPrefix(a, b) == Len(a) <= Len(b) /\ \A i \in DOMAIN a : a[i] = b[i]

\* C14: rewind-and-replay. After rewind() at any point of a SliceIter, an
\* OptionIter, a DataPageIter or a MergingIter - before the first next(),
\* in the middle, after None, once or repeatedly - next() until None yields
\* exactly the sequence of a first full pass.
C14_RewindReplay ==
    (drive.kind # "none" /\ drive.rewinds > 0) =>
        /\ IsPrefix(drive.seen, FirstPass)
        /\ drive.done => drive.seen = FirstPass

\* C15: build_from_iter round trip. For every input sequence, the empty one
\* included, the page built has len() equal to the number of input entries,
\* its first offset equal to 4 times that number when there is an entry,
\* get(i) equal to the i-th input entry (None past the end), and iter()
\* yields exactly the input entries in input order.
C15_BuildRoundTrip ==
    (probe.kind = "built") =>
        /\ DataPageLen(probe.page) = Len(probe.data)
        /\ probe.data # <<>> => probe.page.offsets[1] = 4 * Len(probe.data)
        /\ \A i \in 0..(Len(probe.data) - 1) :
               DataPageGet(probe.page, i) = Some(probe.data[i + 1])
        /\ DataPageGet(probe.page, Len(probe.data)) = None
        /\ PassFrom(DataPageIter(probe.page), MaxEntries + 2) = probe.data

\* C15's case: a page built from three entries that are not in key order,
\* one of them twice.
C15_Witness ==
    /\ probe.kind = "built"
    /\ Len(probe.data) = 3
    /\ ~Ascending(probe.data)
    /\ probe.data[1] = probe.data[3]
    /\ DataPageLen(probe.page) = 3

\* The keys of the entries of a page's input.
AllBelow(data, t) == \A i \in DOMAIN data : KeyCmp(data[i][1], t) = "Less"
AllAbove(data, t) == \A i \in DOMAIN data : KeyCmp(data[i][1], t) = "Greater"

\* e is an entry of data whose key is the smallest of those >= t.
SmallestAtLeast(data, t, e) ==
    /\ \E i \in DOMAIN data : data[i] = e
    /\ KeyCmp(e[1], t) # "Less"
    /\ \A i \in DOMAIN data :
           KeyCmp(data[i][1], t) # "Less" => KeyCmp(e[1], data[i][1]) # "Greater"

\* e is an entry of data whose key is the largest of those <= t.
LargestAtMost(data, t, e) ==
    /\ \E i \in DOMAIN data : data[i] = e
    /\ KeyCmp(e[1], t) # "Greater"
    /\ \A i \in DOMAIN data :
           KeyCmp(data[i][1], t) # "Greater" => KeyCmp(e[1], data[i][1]) # "Less"

\* C16: on a data page with ascending keys, seek(t) returns the entry with
\* the smallest key >= t, None when every key is < t, and seek_back(t) the
\* entry with the largest key <= t, None when every key is > t, for targets
\* below the first key, between keys, equal to a key and above the last.
C16_SeekAndSeekBack ==
    (probe.kind = "sought" /\ Ascending(probe.data)) =>
        /\ probe.op = "seek" =>
               IF AllBelow(probe.data, probe.target) THEN probe.ret = None
               ELSE /\ IsSome(probe.ret)
                    /\ SmallestAtLeast(probe.data, probe.target, Unwrap(probe.ret))
        /\ probe.op = "seek_back" =>
               IF AllAbove(probe.data, probe.target) THEN probe.ret = None
               ELSE /\ IsSome(probe.ret)
                    /\ LargestAtMost(probe.data, probe.target, Unwrap(probe.ret))

\* C16's case: seek_back for a target strictly between two keys of a page
\* of three ascending keys, which steps back from rank(target).
C16_Witness ==
    /\ probe.kind = "sought" /\ probe.op = "seek_back"
    /\ Len(probe.data) = 3 /\ Ascending(probe.data)
    /\ KeyCmp(probe.data[2][1], probe.target) = "Less"
    /\ KeyCmp(probe.data[3][1], probe.target) = "Greater"
    /\ probe.ret = Some(probe.data[2])

\* The page a slot of the mapping table points at.
PageAt(id) == mem[table[id]]

\* C17: after open on a fresh tree, before any write, PID 0 holds an index
\* page whose only entry maps the empty key to (leaf PID, version 0), the
\* leaf PID is not 0 and holds an empty data page that is not an index page
\* and has next = 0, and get of any key at any LSN returns None.
C17_FreshOpen ==
    (nwrites = 0) =>
        /\ PageIsIndex(PageAt(ROOT_ID))
        /\ DataPageLen(PageAt(ROOT_ID)) = 1
        /\ DataPageGet(PageAt(ROOT_ID), 0) = Some(<<RawKey(<<>>), Index(LEAF_ID, 0)>>)
        /\ LEAF_ID # ROOT_ID
        /\ IsDataPage(PageAt(LEAF_ID))
        /\ ~PageIsIndex(PageAt(LEAF_ID))
        /\ DataPageLen(PageAt(LEAF_ID)) = 0
        /\ PageAt(LEAF_ID).next = 0
        /\ \A raw \in UserKeys, lsn \in 0..MaxLsn :
               GetResult(raw, lsn) = [tag |-> "Ok", value |-> None]

\* C17's case: a get has returned on the tree as open left it.
C17_Witness ==
    /\ nwrites = 0
    /\ installed = <<>>
    /\ out = Returns([tag |-> "Ok"])

\* A step in which the put or delete of thread t returns Error::Alloc.
ReturnsAlloc(t) ==
    /\ Update(t) \/ TryUpdate(t) \/ Consolidate(t)
    /\ pc'[t] = "idle"
    /\ out' = Returns([tag |-> "Alloc"])

\* C18: a put or delete returns Error::Alloc only for the allocation of its
\* one-entry delta page, and then without a retry: the request has published
\* nothing, and the step leaves the mapping table, every page and every
\* read as they were.
C18_AllocFailure ==
    [][\A t \in Threads :
          ReturnsAlloc(t) =>
              /\ req[t] = None
              /\ table' = table
              /\ mem' = mem
              /\ installed' = installed
              /\ retries' = retries
              /\ \A raw \in UserKeys, lsn \in 0..MaxLsn :
                     GetValueIn(table', mem', raw, lsn) = GetValueIn(table, mem, raw, lsn)]_vars

\* C18's case: an allocation failed for a request on a tree that already
\* holds a write.
C18_Witness ==
    /\ out = Returns([tag |-> "Alloc"])
    /\ installed # <<>>
    /\ \A t \in Threads : pc[t] = "idle"

\* The entries of a data page from index i on, and the entries of the pages
\* of a chain, head first.
RECURSIVE EntriesFrom(_, _)
EntriesFrom(page, i) ==
    IF i >= DataPageLen(page) THEN <<>>
    ELSE <<Unwrap(DataPageGet(page, i))>> \o EntriesFrom(page, i + 1)

RECURSIVE EntriesOfChain(_)
EntriesOfChain(chain) ==
    IF chain = <<>> THEN <<>>
    ELSE EntriesFrom(mem[Head(chain)], 0) \o EntriesOfChain(Tail(chain))

\* The entries of the writes whose CAS has succeeded, in CAS order.
RECURSIVE EntriesInstalled(_)
EntriesInstalled(n) ==
    IF n = 0 THEN <<>>
    ELSE Append(EntriesInstalled(n - 1), <<installed[n].key, installed[n].value>>)

\* C19: no lost update. In every reachable state the entries held by the
\* pages reachable from the leaf's slot are, as a multiset, the entries of
\* the writes whose CAS has succeeded: no consolidation drops a delta that
\* was installed while it ran, and no write is applied twice.
C19_NoLostUpdate ==
    SameBag(EntriesOfChain(ChainFrom(mem, table[LEAF_ID])), EntriesInstalled(Len(installed)))

\* C19's case: a consolidation has lost its CAS to a delta installed while
\* it ran, and a later one has replaced the chain by one page.
C19_Witness ==
    /\ \E i \in DOMAIN installed : installed[i].cons = "Again"
    /\ \E i \in DOMAIN installed : installed[i].cons = "Ok"
    /\ Len(installed) = MaxWrites
    /\ Len(ChainFrom(mem, table[LEAF_ID])) = 1

\* What one turn of try_update's loop by a writer that holds the node nd
\* and the delta page d must leave.
Restamped(t, nd, d) ==
    /\ mem'[d].ver = ViewVer(nd.view)
    /\ mem'[d].len = ViewLen(nd.view) + 1
    /\ mem'[d].next = nd.view
    /\ table'[nd.id] # table[nd.id] =>
           /\ table'[nd.id] = d
           /\ mem'[d].next = table[nd.id]
    /\ (table' = table /\ ViewVer(table[nd.id]) = ViewVer(nd.view)) =>
           /\ pc'[t] = "cas"
           /\ retries' = retries
           /\ out' = out
           /\ node'[t] = Some([id |-> nd.id, view |-> table[nd.id]])

\* C20: every turn of try_update's loop stamps the delta against the head
\* the writer holds (version, chain length = the head's length + 1, next =
\* the head's address); a delta that is installed has next equal to the slot
\* value its CAS replaced; and when the CAS fails and the page now at the
\* slot has the version the writer observed, the writer takes that page as
\* its head and retries the CAS on the same PID, without Error::Again and
\* without a new descent from the root.
C20_RestampAndRetry ==
    [][\A t \in Threads :
          TryUpdate(t) => Restamped(t, Unwrap(node[t]), delta[t])]_vars

\* C20's case: a writer's CAS has failed against a head of the same version;
\* its delta still carries the old stamp, and it holds the new head for the
\* next turn.
C20_Witness ==
    \E t \in Threads :
        /\ pc[t] = "cas"
        /\ IsSome(node[t])
        /\ mem[delta[t]].next # 0
        /\ mem[delta[t]].next # Unwrap(node[t]).view
        /\ table[Unwrap(node[t]).id] = Unwrap(node[t]).view
        /\ retries = 0

\* C21 as stated: when try_update ends with Error::Again (its CAS failed
\* and the page now at the slot has another version, or there is none), the
\* unpublished delta has been deallocated, and the request retries from the
\* root.
C21_DeallocatesAndRetries ==
    [][\A t \in Threads :
          (UpdateLoop(t) /\ retries' # retries) =>
              /\ delta[t] \notin alloc'
              /\ pc'[t] = "find"]_vars

\* C21 as amended: when try_update ends with Error::Again the delta page
\* stays allocated and unchanged, nothing is returned to the caller, and
\* BTree::update runs try_update again with the same delta page, which
\* starts with a descent from the root; the delta page is deallocated only
\* when the request returns an error, which is never Error::Again.
C21_KeepsDeltaAndRetries ==
    [][\A t \in Threads :
          UpdateLoop(t) =>
              \/ /\ retries' = retries + 1
                 /\ pc'[t] = "find"
                 /\ delta'[t] = delta[t]
                 /\ delta[t] \in alloc'
                 /\ mem'[delta[t]] = mem[delta[t]]
                 /\ out' = out
              \/ /\ retries' = retries
                 /\ pc'[t] = "idle"
                 /\ out' # Returns([tag |-> "Again"])
                 /\ delta[t] \in alloc' <=> out' = Returns([tag |-> "Ok"])]_vars

\* C21's case: try_update has ended with Error::Again and the request is
\* about to descend again, its delta page still allocated.
C21_Witness ==
    \E t \in Threads :
        /\ retries > 0
        /\ pc[t] = "find"
        /\ delta[t] \in alloc
        /\ IsSome(req[t])

\* The pages of the chain that starts at addr in the memory m, and the
\* pages reachable from the slots of the mapping table tbl.
ChainPages(m, addr) == {ChainFrom(m, addr)[n] : n \in DOMAIN ChainFrom(m, addr)}
Reachable(tbl, m) == UNION {ChainPages(m, tbl[id]) : id \in PageIds}

\* The chains handed to defer share no page.
DisjointGarbage ==
    \A g, h \in garbage : g # h => ChainPages(mem, g.addr) \cap ChainPages(mem, h.addr) = {}

\* A consolidation by t schedules the chain it replaced, once, and none
\* when its CAS failed.
SchedulesOnce(t) ==
    IF table' # table
    THEN /\ garbage' = garbage \cup {[addr |-> table[LEAF_ID], epoch |-> epoch]}
         /\ table[LEAF_ID] \notin UNION {ChainPages(mem, g.addr) : g \in garbage}
         /\ ChainPages(mem, table[LEAF_ID]) \subseteq alloc'
    ELSE garbage' = garbage

\* C22: reclamation of consolidated chains. A successful consolidation CAS
\* schedules the chain it replaced, once; the chains scheduled share no
\* page; when a scheduled chain is freed, all its pages, from the old head
\* to the terminator by their own next links, are freed together, each was
\* still allocated, and no guard pinned at or before the epoch of the CAS
\* is still held; no page reachable from a slot is ever deallocated.
C22_ChainReclamation ==
    [][/\ DisjointGarbage
       /\ \A t \in Threads : Consolidate(t) => SchedulesOnce(t)
       /\ \A g \in garbage \ garbage' :
              /\ ChainPages(mem, g.addr) \subseteq alloc \ alloc'
              /\ \A p \in Participants : IsSome(pinned[p]) => Unwrap(pinned[p]) > g.epoch
       /\ \A a \in alloc \ alloc' :
              /\ a \notin Reachable(table, mem) \cup Reachable(table', mem')
              /\ \E g \in garbage \ garbage' : a \in ChainPages(mem, g.addr)]_vars

\* C22's case: a consolidation has replaced a chain, the chain has been
\* freed, and a writer that entered later holds its unpublished delta.
C22_Witness ==
    /\ \E i \in DOMAIN installed : installed[i].cons = "Ok"
    /\ garbage = {}
    /\ alloc \ Reachable(table, mem) # {}
    /\ \E t \in Threads : pc[t] = "cas" /\ IsSome(pinned[t])

\* The usable sizes of the pages at the addresses S, added up.
RECURSIVE TotalUsable(_)
TotalUsable(S) ==
    IF S = {} THEN 0
    ELSE LET a == CHOOSE x \in S : TRUE
         IN AllocSize(mem[a]) + TotalUsable(S \ {a})

\* All requests have returned and all deferred frees have run.
Quiescent ==
    /\ \A t \in Threads : pc[t] = "idle"
    /\ reader.pc = "idle"
    /\ garbage = {}

\* C23: no page leak and balanced accounting. The counter of PageCache is
\* always the total usable size of the pages allocated and not deallocated
\* (a base page that lost its consolidation CAS and a delta whose update
\* failed are not among them), and once all requests have returned and all
\* deferred frees have run these are exactly the pages reachable from the
\* mapping table.
C23_BalancedAccounting ==
    /\ size = TotalUsable(alloc)
    /\ Quiescent =>
           /\ alloc = Reachable(table, mem)
           /\ size = TotalUsable(Reachable(table, mem))

\* C23's case: every write has returned, one consolidation lost its CAS and
\* freed its page, another replaced the chain, and the chain has been freed.
C23_Witness ==
    /\ Quiescent
    /\ nwrites = MaxWrites
    /\ \E i \in DOMAIN installed : installed[i].cons = "Again"
    /\ \E i \in DOMAIN installed : installed[i].cons = "Ok"

\* C24: lock-free progress. A writer's CAS fails only when the slot no
\* longer holds the page the writer observed, that is, when another CAS on
\* the slot succeeded in between; a pending writer always has a step it can
\* take whatever the other threads do; and under fair scheduling every
\* request of a finite set returns.
C24_LockFreeProgress ==
    /\ [][\A t \in Threads :
             (TryUpdate(t) /\ table' = table) =>
                 table[Unwrap(node[t]).id] # Unwrap(node[t]).view]_vars
    /\ [](\A t \in Threads : pc[t] # "idle" => ENABLED ThreadStep(t))
    /\ \A t \in Threads : (pc[t] # "idle") ~> (pc[t] = "idle")

\* C24's case: two writers are pending on the same slot and one of them
\* holds a head that another CAS has replaced, so that its next CAS fails.
C24_Witness ==
    /\ \A t \in Threads : pc[t] # "idle"
    /\ \E t \in Threads :
          /\ pc[t] = "cas"
          /\ table[Unwrap(node[t]).id] # Unwrap(node[t]).view

\* C25: the 8-bit chain-length field never overflows. No request panics,
\* and every delta was stamped on a node whose chain length is at most 254,
\* so that its own length is that of the node + 1.
C25_NoLenOverflow ==
    /\ \A t \in Threads : pc[t] # "panic"
    /\ \A a \in alloc :
           mem[a].next # 0 =>
               /\ mem[mem[a].next].len <= LEN_VALUES - 2
               /\ mem[a].len = mem[mem[a].next].len + 1

\* Every key a descent can be asked for: the user keys and the empty key.
DescentKeys == UserKeys \cup {<<>>}

\* The state in which no descent can leave its implemented path.
DescentIsSafe ==
    /\ \A t \in Threads : pc[t] # "panic"
    /\ \A id \in PageIds : table[id] # 0 /\ table[id] \in alloc
    /\ \A a \in Reachable(table, mem) : mem[a].ver = 0
    /\ PageIsIndex(PageAt(ROOT_ID))
    /\ ~PageIsIndex(PageAt(LEAF_ID))
    /\ \A raw \in DescentKeys :
           LookupIndex(mem, raw, NodeOf(ROOT_ID)) = Some(Index(LEAF_ID, PageAt(LEAF_ID).ver))
    /\ \A raw \in DescentKeys : TryFindNode(raw) = [tag |-> "Ok", node |-> NodeOf(LEAF_ID)]

\* C26: no request reaches an unimplemented or panicking path of the
\* descent. In every reachable state every slot in use holds the non-zero
\* address of an allocated page, every published page has version 0, which is
\* the version its parent's index entry records, and the root index resolves
\* every key to the leaf, so that try_find_node returns the leaf without
\* try_reconcile_node and without a failing unwrap; and no step changes the
\* root's slot.
C26_NoPanicPath ==
    /\ []DescentIsSafe
    /\ [][table'[ROOT_ID] = table[ROOT_ID]]_vars

\* C26's case: the leaf's chain has been replaced by a consolidated page,
\* and a writer that has built its delta is about to descend.
C26_Witness ==
    /\ \E i \in DOMAIN installed : installed[i].cons = "Ok"
    /\ PageAt(LEAF_ID).next = 0
    /\ table[LEAF_ID] # 1
    /\ \E t \in Threads : pc[t] = "find"

\* The entries of all the pages of an index chain, those whose separator is
\* at most the key, and the ones among them with the largest separator.
ChainEntries(chain) ==
    UNION {{IndexEntries(p, chain[p], 1)[i] : i \in 1..Cardinality(chain[p])} :
               p \in DOMAIN chain}
AtMost(chain, raw) ==
    {e \in ChainEntries(chain) : KeyCmp(e[1], RawKey(raw)) # "Greater"}
LargestSeparator(chain, raw) ==
    {e \in AtMost(chain, raw) :
        \A f \in AtMost(chain, raw) : KeyCmp(f[1], e[1]) # "Greater"}

ChildSource(it) == IF it.type = "slice" THEN it.data ELSE it.page
RECURSIVE Sources(_)
Sources(cs) == IF cs = <<>> THEN <<>> ELSE <<ChildSource(Head(cs))>> \o Sources(Tail(cs))
HeldChildren(it) == Sources(it.heap \o it.children)

\* The entries of the children whose key is not below the target.
NotBelow(target) ==
    {i \in DOMAIN Concat(drive.data) : KeyCmp(Concat(drive.data)[i][1], target) # "Less"}

\* C28: seek and rewind of a MergingIter reset the merge lazily. After
\* seek(t), at any point of an iteration, last() is None until the next
\* next(); that next() returns an entry with the smallest key >= t over all
\* the children, None when no child has one; the entries of the following
\* next() calls never descend; and through next(), seek and rewind the
\* children in the heap and in the pending list together are the N children
\* the iterator was built with.
C28_LazySeek ==
    (drive.kind = "merging") =>
        /\ SameBag(HeldChildren(drive.it), Sources(AddAll(drive.child, drive.data)))
        /\ IsSome(drive.sought) =>
               LET t == Unwrap(drive.sought).target
                   all == Concat(drive.data)
               IN /\ (drive.seen = <<>> /\ ~drive.done) => MergingIterLast(drive.it) = None
                  /\ (drive.seen = <<>> /\ drive.done) => NotBelow(t) = {}
                  /\ drive.seen # <<>> =>
                         /\ \E i \in NotBelow(t) : all[i] = drive.seen[1]
                         /\ \A i \in NotBelow(t) :
                                KeyCmp(all[i][1], drive.seen[1][1]) # "Less"
                  /\ Ascending(drive.seen)

\* C28's case: a merge of three children sought in the middle of a pass, at
\* a key that lies between the keys of the entries, which has since yielded
\* two entries, the first of them above the target and below it an entry
\* that was left out.
C28_Witness ==
    /\ drive.kind = "merging" /\ Len(drive.data) = 3
    /\ IsSome(drive.sought)
    /\ Unwrap(drive.sought).mid
    /\ Len(drive.seen) = 2
    /\ KeyCmp(drive.seen[1][1], Unwrap(drive.sought).target) = "Greater"
    /\ \E i \in DOMAIN Concat(drive.data) : i \notin NotBelow(Unwrap(drive.sought).target)

\* ForwardIter::last of the iterator driven, and what the most recent next()
\* of the pass returned: None when there was none since the iterator was
\* made, rewound or sought.
DrivenLast ==
    IF drive.kind = "merging" THEN MergingIterLast(drive.it) ELSE drive.it.last
LatestNext ==
    IF drive.done \/ drive.seen = <<>> THEN None
    ELSE Some(drive.seen[Len(drive.seen)])

\* C29: for SliceIter, OptionIter, DataPageIter and MergingIter, last() is
\* what the most recent next() returned, Some(entry) or None at exhaustion,
\* and None before the first next() and right after rewind() or seek().
C29_LastIsLatestNext ==
    (drive.kind # "none") => DrivenLast = LatestNext

\* C30: the header accessors are independent. After set_default every field
\* reads as zero: version 0, chain length 0, next 0, kind Data, is_index
\* false, content size 0. Each setter makes its own getter return the value
\* set and leaves what every other getter returns unchanged; set_ver leaves
\* the chain-length byte and the tag byte as they were.
C30_IndependentAccessors ==
    (probe.kind = "header") =>
        /\ probe.field = "default" =>
               HeaderFields(probe.header) =
                   [ver |-> 0, len |-> 0, next |-> 0, kind |-> KindData,
                    is_index |-> FALSE, content_size |-> 0]
        /\ probe.field # "default" =>
               HeaderFields(probe.header) =
                   [HeaderFields(probe.was) EXCEPT ![probe.field] = probe.arg]
        /\ probe.field = "ver" =>
               /\ probe.header[LenAt + 1] = probe.was[LenAt + 1]
               /\ probe.header[TagAt + 1] = probe.was[TagAt + 1]

\* C30's case: set_kind(Split) on a header whose every field is non-zero
\* and whose index flag is set.
C30_Witness ==
    /\ probe.kind = "header" /\ probe.field = "kind" /\ probe.arg = KindSplit
    /\ HeaderFields(probe.was) =
           [ver |-> 513, len |-> 255, next |-> 66051, kind |-> KindData,
            is_index |-> TRUE, content_size |-> 772]

\* A u64 lies above 2^48 - 1 when one of its two high bytes is not zero.
Above48(ver) == ver[7] # 0 \/ ver[8] # 0

\* b is a + 1: below some byte all bytes of a are 255 and those of b are 0,
\* that byte is one more in b, and the bytes above it are the same.
IsSuccessor(a, b) ==
    \E k \in 1..8 :
        /\ \A i \in 1..(k - 1) : a[i] = 255 /\ b[i] = 0
        /\ b[k] = a[k] + 1
        /\ \A i \in (k + 1)..8 : b[i] = a[i]

\* C31: page versions are confined to 48 bits. PageVer::new rejects every
\* value above 2^48 - 1 and accepts the others; next on 2^48 - 1 fails and
\* does not wrap to 0; on any other legal version next is the version plus
\* one; and for every legal version v, set_ver(v) followed by ver() is v.
C31_FortyEightBits ==
    /\ probe.kind = "new" =>
           IF Above48(probe.ver) THEN probe.ret.tag = "Panic"
           ELSE probe.ret = [tag |-> "Ok", ver |-> probe.ver]
    /\ probe.kind = "next" =>
           IF probe.ver = PAGE_VERSION_MAX THEN probe.ret.tag = "Panic"
           ELSE /\ probe.ret.tag = "Ok"
                /\ IsSuccessor(probe.ver, probe.ret.ver)
                /\ ~U64Le(probe.ret.ver, probe.ver)
    /\ probe.kind = "stored" => HeaderVer(probe.header) = probe.ver

\* C31's case: next() on the greatest version.
C31_Witness ==
    /\ probe.kind = "next"
    /\ probe.ver = PAGE_VERSION_MAX
    /\ probe.ret.tag = "Panic"

\* The addresses of the other variant, over the slot values tried.
OtherVariant(a) ==
    {IF a.tag = "Mem" THEN DiskAddr(y) ELSE MemAddr(y) :
        y \in {x \in SlotInputs : ~HasMask(x)}}

\* C32: the tagged address round trip. Every 64-bit slot value x converted
\* to a PageAddr and back is x; with bit 63 clear x decodes to Mem(x), with
\* bit 63 set to Disk(x with bit 63 cleared); every Disk(a) with bit 63 of a
\* clear, encoded and decoded, is Disk(a); and no Mem address and Disk
\* address encode to the same slot value.
C32_TaggedRoundTrip ==
    /\ probe.kind = "decoded" =>
           /\ probe.back = probe.x
           /\ ~HasMask(probe.x) => probe.addr = MemAddr(probe.x)
           /\ HasMask(probe.x) =>
                  /\ probe.addr.tag = "Disk"
                  /\ ~HasMask(probe.addr.addr)
                  /\ \A i \in 1..7 : probe.addr.addr[i] = probe.x[i]
                  /\ probe.addr.addr[8] + TOP_BIT = probe.x[8]
    /\ probe.kind = "encoded" =>
           /\ probe.back = probe.addr
           /\ \A b \in OtherVariant(probe.addr) : PageAddrInto(b) # probe.slot

\* C32's case: a Disk address with every bit below bit 63 set, encoded and
\* decoded.
C32_Witness ==
    /\ probe.kind = "encoded"
    /\ probe.addr = DiskAddr(<<255, 255, 255, 255, 255, 255, 255, 127>>)
    /\ probe.slot = <<255, 255, 255, 255, 255, 255, 255, 255>>

\* The map of a BaseData or a BaseIndex, and its keys below a key.
EntriesOf(base) == IF "records" \in DOMAIN base THEN base.records ELSE base.children
KeysBelow(map, key) == {k \in DOMAIN map : CmpBytes(k, key) = "Less"}

C34_SizeIsSumOfRecords ==
    (probe.kind = "data") =>
        /\ probe.base.size = RecordsSize(probe.base.records)
        /\ (probe.op = "split" /\ IsSome(probe.right)) =>
               probe.base.size + Unwrap(probe.right).size = probe.was.size

\* C35: delta folding is order-correct. DeltaData::merge keeps the
\* receiver's entry for every key of both deltas and adopts the other's
\* entry otherwise; applying newer.merge(older) to a BaseData gives the
\* records that applying older and then newer gives; and after apply(d),
\* get(k) is d's value for every key d puts, None for every key d deletes
\* and the value from before for every key d does not mention.
C35_DeltaFolding ==
    /\ probe.kind = "merged" =>
           /\ DOMAIN probe.merged.records =
                  DOMAIN probe.newer.records \cup DOMAIN probe.older.records
           /\ \A k \in DOMAIN probe.newer.records :
                  probe.merged.records[k] = probe.newer.records[k]
           /\ \A k \in DOMAIN probe.older.records \ DOMAIN probe.newer.records :
                  probe.merged.records[k] = probe.older.records[k]
           /\ probe.folded.records = probe.base.records
    /\ (probe.kind = "data" /\ probe.op = "apply") =>
           \A k \in DataKeys :
               BaseDataGet(probe.base, k) =
                   IF k \in DOMAIN probe.delta.records THEN probe.delta.records[k]
                   ELSE BaseDataGet(probe.was, k)

\* C35's case: two deltas on a base of two records that disagree on a key,
\* the newer deleting what the older puts, the older alone naming another.
C35_Witness ==
    /\ probe.kind = "merged"
    /\ Cardinality(DOMAIN probe.was.records) = 2
    /\ \E k \in DOMAIN probe.newer.records \cap DOMAIN probe.older.records :
           probe.newer.records[k] = None /\ IsSome(probe.older.records[k])
    /\ DOMAIN probe.older.records \ DOMAIN probe.newer.records # {}
    /\ probe.folded.records = probe.base.records

\* The keys looked up in an index: the separators, one between two of them
\* and one above them all.
LookupKeys == IndexKeys \cup {<<1, 1>>, <<4>>}

\* C36: index delta application agrees with delta coverage. After
\* BaseIndex::apply of a DeltaIndex d, get(key) is d.new_child, id and
\* epoch, for every key d covers (lowest <= key < highest, or lowest <= key
\* when highest is empty), and the child from before the apply for every
\* key outside d's range.
C36_ApplyAgreesWithCovers ==
    (probe.kind = "index" /\ probe.op = "apply") =>
        \A key \in LookupKeys :
            IF IsSome(DeltaIndexCovers(probe.delta, key))
            THEN BaseIndexGet(probe.base, key) = DeltaIndexCovers(probe.delta, key)
            ELSE BaseIndexGet(probe.base, key) = BaseIndexGet(probe.was, key)


====
